---- MODULE Spec2Model ----
(***************************************************************************)
(* METAR decoding in scripts/metar_logger.py and scripts/weather_logger.py *)
(* (the two copies of fetch_metar).                                        *)
(*                                                                         *)
(* A report is its list of whitespace-delimited groups; a group is a       *)
(* sequence of one-character strings, so that the regular expressions and  *)
(* the string slicing of the source are computed character by character.   *)
(* A Python value that may be None is <<>> (None) or <<x>> (the value x).  *)
(* A float is the exact rational <<numerator, denominator>>.               *)
(***************************************************************************)
EXTENDS Integers, Sequences, FiniteSets, TLC

\* Largest number of groups in the METAR cell of the page (station id excluded).
MaxLen == 3

None == <<>>

Some(x) == <<x>>

-----------------------------------------------------------------------------
(* Characters, int() and float()                                           *)

Digits == {"0", "1", "2", "3", "4", "5", "6", "7", "8", "9"}

DigitVal(c) ==
    CASE c = "0" -> 0 [] c = "1" -> 1 [] c = "2" -> 2 [] c = "3" -> 3
      [] c = "4" -> 4 [] c = "5" -> 5 [] c = "6" -> 6 [] c = "7" -> 7
      [] c = "8" -> 8 [] c = "9" -> 9

AllDigits(s) == \A k \in 1..Len(s) : s[k] \in Digits

\* int(s) for a string of decimal digits (the only strings the source
\* passes to int() are digit strings selected by a regular expression).
RECURSIVE ToInt(_)
ToInt(s) ==
    IF s = <<>> THEN 0
    ELSE 10 * ToInt(SubSeq(s, 1, Len(s) - 1)) + DigitVal(s[Len(s)])

\* `c in s`
HasChar(s, c) == \E k \in 1..Len(s) : s[k] = c

\* s.startswith(p) and s.endswith(p)
StartsWith(s, p) == Len(s) >= Len(p) /\ SubSeq(s, 1, Len(p)) = p

EndsWith(s, p) == Len(s) >= Len(p) /\ SubSeq(s, Len(s) - Len(p) + 1, Len(s)) = p

\* s.split(c): the pieces of s between the occurrences of the character c.
RECURSIVE Split(_, _)
Split(s, c) ==
    IF ~HasChar(s, c) THEN <<s>>
    ELSE LET k == CHOOSE j \in 1..Len(s) :
                     s[j] = c /\ \A h \in 1..(j - 1) : s[h] # c
         IN  <<SubSeq(s, 1, k - 1)>> \o Split(SubSeq(s, k + 1, Len(s)), c)

\* float(s): a non-empty string of decimal digits is its value, every other
\* string over the alphabet of Vocabulary (letters M, S, "/", the empty
\* string) raises ValueError.
FloatOk(s) == s # <<>> /\ AllDigits(s)

Float(s) == <<ToInt(s), 1>>

\* Comparison and sum of exact rationals with positive denominators.
RatLt(a, b) == a[1] * b[2] < b[1] * a[2]

RatEq(a, b) == a[1] * b[2] = b[1] * a[2]

RatAdd(a, b) == <<a[1] * b[2] + b[1] * a[2], a[2] * b[2]>>

-----------------------------------------------------------------------------
(* The group patterns of fetch_metar                                       *)

\* ObsTimeRe without the closing Z: re.match(r'^\d{6}', part).
ObsTimeRe_NoZ(part) == Len(part) >= 6 /\ AllDigits(SubSeq(part, 1, 6))

\* re.match(r'^\d{6}Z$', part)
ObsTimeRe(part) ==
    Len(part) = 7 /\ AllDigits(SubSeq(part, 1, 6)) /\ part[7] = "Z"

\* re.match(r'^\d{3}(\d{2,3})KT$', part)
SpeedRe(part) ==
    /\ Len(part) \in 7..8
    /\ EndsWith(part, <<"K", "T">>)
    /\ AllDigits(SubSeq(part, 1, Len(part) - 2))

\* re.match(r'^\d{3}(\d{2,3})G(\d{2,3})KT$', part); GPos is where the G is.
GPos(part) == CHOOSE k \in 1..Len(part) : part[k] = "G"

GustRe(part) ==
    /\ HasChar(part, "G")
    /\ EndsWith(part, <<"K", "T">>)
    /\ LET g == GPos(part)
       IN  /\ g - 1 \in 5..6
           /\ AllDigits(SubSeq(part, 1, g - 1))
           /\ Len(part) - 2 - g \in 2..3
           /\ AllDigits(SubSeq(part, g + 1, Len(part) - 2))

\* re.match(r'^\d{3}\d{2,3}(G\d{2,3})?KT$', part)
WindRe(part) == SpeedRe(part) \/ GustRe(part)

\* re.match(r'^VRB\d{2,3}KT$', part)
VrbRe(part) ==
    /\ Len(part) \in 7..8
    /\ StartsWith(part, <<"V", "R", "B">>)
    /\ EndsWith(part, <<"K", "T">>)
    /\ AllDigits(SubSeq(part, 4, Len(part) - 2))

\* re.match(r'^M?\d{2}$', s): one side of the temperature/dewpoint group.
SignedTwoDigits(s) ==
    \/ Len(s) = 2 /\ AllDigits(s)
    \/ Len(s) = 3 /\ s[1] = "M" /\ AllDigits(SubSeq(s, 2, 3))

\* re.match(r'^M?\d{2}/M?\d{2}$', part)
TempRe(part) ==
    LET td == Split(part, "/")
    IN  Len(td) = 2 /\ SignedTwoDigits(td[1]) /\ SignedTwoDigits(td[2])

\* re.match(r'^A\d{4}$', part)
AltimeterRe(part) ==
    Len(part) = 5 /\ part[1] = "A" /\ AllDigits(SubSeq(part, 2, 5))

SkyCoverages ==
    { <<"F", "E", "W">>, <<"S", "C", "T">>, <<"B", "K", "N">>,
      <<"O", "V", "C">>, <<"C", "L", "R">>, <<"S", "K", "C">>, <<"V", "V">> }

CeilingCoverages == { <<"B", "K", "N">>, <<"O", "V", "C">>, <<"V", "V">> }

\* re.match(r'^(FEW|SCT|BKN|OVC|CLR|SKC|VV)\d{0,3}$', part)
SkyRe(part) ==
    \E c \in SkyCoverages :
        /\ StartsWith(part, c)
        /\ Len(part) - Len(c) \in 0..3
        /\ AllDigits(SubSeq(part, Len(c) + 1, Len(part)))

\* re.match(r'^(BKN|OVC|VV)(\d{3})$', part)
HeightRe(part) ==
    \E c \in CeilingCoverages :
        /\ StartsWith(part, c)
        /\ Len(part) - Len(c) = 3
        /\ AllDigits(SubSeq(part, Len(c) + 1, Len(part)))

\* height_match.group(2)
HeightGroup(part) == SubSeq(part, Len(part) - 2, Len(part))

Descriptors ==
    { <<"M", "I">>, <<"P", "R">>, <<"B", "C">>, <<"D", "R">>,
      <<"B", "L">>, <<"S", "H">>, <<"T", "S">>, <<"F", "Z">> }

WeatherTypes ==
    { <<"D", "Z">>, <<"R", "A">>, <<"S", "N">>, <<"S", "G">>, <<"I", "C">>,
      <<"P", "L">>, <<"G", "R">>, <<"G", "S">>, <<"U", "P">>, <<"B", "R">>,
      <<"F", "G">>, <<"F", "U">>, <<"V", "A">>, <<"D", "U">>, <<"S", "A">>,
      <<"H", "Z">>, <<"P", "Y">>, <<"P", "O">>, <<"S", "Q">>, <<"F", "C">>,
      <<"S", "S">>, <<"D", "S">> }

\* (DZ|RA|...|DS)+ up to the end of the string
RECURSIVE TypesPlus(_)
TypesPlus(s) ==
    /\ Len(s) >= 2
    /\ SubSeq(s, 1, 2) \in WeatherTypes
    /\ (Len(s) = 2 \/ TypesPlus(SubSeq(s, 3, Len(s))))

\* re.match(r'^[-+]?(VC)?(MI|PR|BC|DR|BL|SH|TS|FZ)?(DZ|RA|...|DS)+$', part):
\* each optional part is either taken or not, as the backtracking matcher does.
WeatherRe(part) ==
    \E sign \in {0, 1}, vc \in {0, 2}, desc \in {0, 2} :
        /\ Len(part) >= sign + vc + desc
        /\ sign = 1 => part[1] \in {"-", "+"}
        /\ vc = 2 => SubSeq(part, sign + 1, sign + 2) = <<"V", "C">>
        /\ desc = 2 => SubSeq(part, sign + vc + 1, sign + vc + 2) \in Descriptors
        /\ TypesPlus(SubSeq(part, sign + vc + desc + 1, Len(part)))

-----------------------------------------------------------------------------
(* The decoded observation                                                 *)

\* The dict built before the groups are examined: every decoded field None.
EmptyResult(station_id, raw_metar) ==
    [ station_id         |-> station_id,
      raw_metar          |-> raw_metar,
      observation_time   |-> None,
      wind_direction_deg |-> None,
      wind_speed_kt      |-> None,
      wind_gust_kt       |-> None,
      visibility_sm      |-> None,
      weather_phenomena  |-> None,
      ceiling_ft         |-> None,
      sky_condition      |-> None,
      temperature_c      |-> None,
      dewpoint_c         |-> None,
      altimeter_inhg     |-> None,
      flight_category    |-> None ]

\* The state of the try block after a statement: exc is "" while no
\* exception is in flight, else the class of the exception raised.
Ok(r) == [exc |-> "", r |-> r]

Raise(e, r) == [exc |-> e, r |-> r]

\* calendar.monthrange(year, month)[1], as datetime() checks the day.
IsLeap(year) == (year % 4 = 0 /\ year % 100 # 0) \/ year % 400 = 0

DaysInMonth(year, month) ==
    IF month = 2 THEN (IF IsLeap(year) THEN 29 ELSE 28)
    ELSE IF month \in {4, 6, 9, 11} THEN 30 ELSE 31

\* Observation time (DDHHMMz): datetime(now.year, now.month, day, hour,
\* minute) raises ValueError for a day, hour or minute out of range;
\* strftime keeps year, month, day, hour and minute.
TimeGroup(part, r, now) ==
    LET day    == ToInt(SubSeq(part, 1, 2))
        hour   == ToInt(SubSeq(part, 3, 4))
        minute == ToInt(SubSeq(part, 5, 6))
    IN  IF /\ day \in 1..DaysInMonth(now.year, now.month)
           /\ hour \in 0..23
           /\ minute \in 0..59
        THEN Ok([r EXCEPT !.observation_time =
                     Some(<<now.year, now.month, day, hour, minute>>)])
        ELSE Raise("ValueError", r)

\* Wind (dddss[Ggg]KT)
WindGroup(part, r) ==
    LET r1 == [r EXCEPT !.wind_direction_deg = Some(ToInt(SubSeq(part, 1, 3)))]
    IN  IF HasChar(part, "G")
        THEN IF GustRe(part)
             THEN Ok([r1 EXCEPT
                        !.wind_speed_kt = Some(ToInt(SubSeq(part, 4, GPos(part) - 1))),
                        !.wind_gust_kt  = Some(ToInt(SubSeq(part, GPos(part) + 1,
                                                            Len(part) - 2)))])
             ELSE Ok(r1)
        ELSE IF SpeedRe(part)
             THEN Ok([r1 EXCEPT
                        !.wind_speed_kt = Some(ToInt(SubSeq(part, 4, Len(part) - 2)))])
             ELSE Ok(r1)

\* Variable wind (VRBssKT)
VrbGroup(part, r) ==
    Ok([r EXCEPT !.wind_direction_deg = Some(0),
                 !.wind_speed_kt = Some(ToInt(SubSeq(part, 4, Len(part) - 2)))])

\* float(num) / float(den) for `num, den = s.split('/')`: ValueError when
\* the split does not give two pieces or a piece is not a number (float(num)
\* is evaluated before float(den)), ZeroDivisionError for a zero divisor.
Fraction(s) ==
    LET nd == Split(s, "/")
    IN  IF Len(nd) # 2 THEN [exc |-> "ValueError", val |-> <<0, 1>>]
        ELSE IF ~FloatOk(nd[1]) \/ ~FloatOk(nd[2])
             THEN [exc |-> "ValueError", val |-> <<0, 1>>]
        ELSE IF ToInt(nd[2]) = 0
             THEN [exc |-> "ZeroDivisionError", val |-> <<0, 1>>]
        ELSE [exc |-> "", val |-> <<ToInt(nd[1]), ToInt(nd[2])>>]

\* The body of the try statement of the visibility branch.
VisibilityValue(vis_str) ==
    IF HasChar(vis_str, "/")
    THEN IF HasChar(vis_str, " ")
         THEN LET wf == Split(vis_str, " ")
              IN  IF Len(wf) # 2 \/ ~FloatOk(wf[1])
                  THEN [exc |-> "ValueError", val |-> <<0, 1>>]
                  ELSE LET f == Fraction(wf[2])
                       IN  [exc |-> f.exc, val |-> RatAdd(Float(wf[1]), f.val)]
         ELSE Fraction(vis_str)
    ELSE IF FloatOk(vis_str)
         THEN [exc |-> "", val |-> Float(vis_str)]
         ELSE [exc |-> "ValueError", val |-> <<0, 1>>]

\* Visibility (part.endswith('SM')): `except ValueError: pass` absorbs a
\* ValueError; any other exception leaves the branch.
VisibilityGroup(part, r) ==
    LET v == VisibilityValue(SubSeq(part, 1, Len(part) - 2))
    IN  IF v.exc = "" THEN Ok([r EXCEPT !.visibility_sm = Some(v.val)])
        ELSE IF v.exc = "ValueError" THEN Ok(r)
        ELSE Raise(v.exc, r)

\* SignedInt that drops the M of a negative value.
SignedInt_Unsigned(s) ==
    IF StartsWith(s, <<"M">>) THEN ToInt(SubSeq(s, 2, Len(s))) ELSE ToInt(s)

\* -int(s[1:]) if s.startswith('M') else int(s)
SignedInt(s) ==
    IF StartsWith(s, <<"M">>) THEN 0 - ToInt(SubSeq(s, 2, Len(s))) ELSE ToInt(s)

\* Temperature/Dewpoint
TempGroup(part, r) ==
    LET temp_dew == Split(part, "/")
    IN  Ok([r EXCEPT !.temperature_c = Some(SignedInt(temp_dew[1])),
                     !.dewpoint_c    = Some(SignedInt(temp_dew[2]))])

\* Altimeter: int(part[1:]) / 100.0, kept in hundredths of inHg.
AltimeterGroup(part, r) ==
    Ok([r EXCEPT !.altimeter_inhg = Some(<<ToInt(SubSeq(part, 2, 5)), 100>>)])

\* SkyGroup keeping the lowest BKN/OVC/VV height instead of the first.
SkyGroup_Lowest(part, r) ==
    LET r1 == [r EXCEPT !.sky_condition =
                   IF r.sky_condition # None /\ r.sky_condition[1] # <<>>
                   THEN Some(r.sky_condition[1] \o <<",", " ">> \o part)
                   ELSE Some(part)]
    IN  IF /\ \E c \in CeilingCoverages : StartsWith(part, c)
           /\ HeightRe(part)
           /\ \/ r.ceiling_ft = None
              \/ ToInt(HeightGroup(part)) * 100 < r.ceiling_ft[1]
        THEN Ok([r1 EXCEPT !.ceiling_ft = Some(ToInt(HeightGroup(part)) * 100)])
        ELSE Ok(r1)

\* Sky conditions: the group is appended to sky_condition after ', ', and
\* the first BKN/OVC/VV group with a three-digit height sets ceiling_ft.
SkyGroup(part, r) ==
    LET r1 == [r EXCEPT !.sky_condition =
                   IF r.sky_condition # None /\ r.sky_condition[1] # <<>>
                   THEN Some(r.sky_condition[1] \o <<",", " ">> \o part)
                   ELSE Some(part)]
    IN  IF /\ \E c \in CeilingCoverages : StartsWith(part, c)
           /\ r.ceiling_ft = None
           /\ HeightRe(part)
        THEN Ok([r1 EXCEPT !.ceiling_ft = Some(ToInt(HeightGroup(part)) * 100)])
        ELSE Ok(r1)

-----------------------------------------------------------------------------
(* fetch_metar                                                             *)

\* One iteration of `for i, part in enumerate(parts)` in metar_logger: the
\* if/elif chain tries the patterns in this order and runs one branch.
StepML(parts, i, r, now) ==
    LET part == parts[i]
    IN  IF ObsTimeRe(part) THEN TimeGroup(part, r, now)
        ELSE IF WindRe(part) THEN WindGroup(part, r)
        ELSE IF VrbRe(part) THEN VrbGroup(part, r)
        ELSE IF EndsWith(part, <<"S", "M">>) THEN VisibilityGroup(part, r)
        ELSE IF TempRe(part) THEN TempGroup(part, r)
        ELSE IF AltimeterRe(part) THEN AltimeterGroup(part, r)
        ELSE IF SkyRe(part) THEN SkyGroup(part, r)
        ELSE Ok(r)

\* `elif part == 'SM' and i > 0` of weather_logger: the fraction of the
\* previous group, ValueError and IndexError absorbed.
PrevFractionGroup(parts, i, r) ==
    LET prev == parts[i - 1]
    IN  IF HasChar(prev, "/")
        THEN LET f == Fraction(prev)
             IN  IF f.exc = "" THEN Ok([r EXCEPT !.visibility_sm = Some(f.val)])
                 ELSE IF f.exc \in {"ValueError", "IndexError"} THEN Ok(r)
                 ELSE Raise(f.exc, r)
        ELSE Ok(r)

\* The same iteration in weather_logger, which has one more branch after
\* the visibility branch.
StepWL(parts, i, r, now) ==
    LET part == parts[i]
    IN  IF ObsTimeRe(part) THEN TimeGroup(part, r, now)
        ELSE IF WindRe(part) THEN WindGroup(part, r)
        ELSE IF VrbRe(part) THEN VrbGroup(part, r)
        ELSE IF EndsWith(part, <<"S", "M">>) THEN VisibilityGroup(part, r)
        ELSE IF part = <<"S", "M">> /\ i > 1 THEN PrevFractionGroup(parts, i, r)
        ELSE IF TempRe(part) THEN TempGroup(part, r)
        ELSE IF AltimeterRe(part) THEN AltimeterGroup(part, r)
        ELSE IF SkyRe(part) THEN SkyGroup(part, r)
        ELSE Ok(r)

\* The for loop: an exception raised by an iteration ends it.
RECURSIVE ParseLoopML(_, _, _, _)
ParseLoopML(parts, i, r, now) ==
    IF i > Len(parts) THEN Ok(r)
    ELSE LET s == StepML(parts, i, r, now)
         IN  IF s.exc # "" THEN s ELSE ParseLoopML(parts, i + 1, s.r, now)

RECURSIVE ParseLoopWL(_, _, _, _)
ParseLoopWL(parts, i, r, now) ==
    IF i > Len(parts) THEN Ok(r)
    ELSE LET s == StepWL(parts, i, r, now)
         IN  IF s.exc # "" THEN s ELSE ParseLoopWL(parts, i + 1, s.r, now)

\* sep.join(strs)
RECURSIVE Join(_, _)
Join(strs, sep) ==
    IF strs = <<>> THEN <<>>
    ELSE IF Len(strs) = 1 THEN strs[1]
    ELSE strs[1] \o sep \o Join(Tail(strs), sep)

\* Weather phenomena: a second pass over every group of the report.
WeatherPhenomena(parts) ==
    LET weather_codes == SelectSeq(parts, WeatherRe)
    IN  IF weather_codes # <<>> THEN Some(Join(weather_codes, <<" ">>)) ELSE None

Half == <<1, 2>>

\* FlightCategoryML with the LIFR ceiling of the two-value branch inclusive.
FlightCategoryML_InclusiveLIFR(ceiling, vis) ==
    IF ceiling # None /\ vis # None
    THEN IF ceiling[1] <= 200 \/ RatLt(vis[1], Half) THEN Some("LIFR")
         ELSE IF ceiling[1] < 500 \/ RatLt(vis[1], <<1, 1>>) THEN Some("IFR")
         ELSE IF ceiling[1] < 1000 \/ RatLt(vis[1], <<3, 1>>) THEN Some("MVFR")
         ELSE Some("VFR")
    ELSE IF ceiling # None
    THEN IF ceiling[1] < 200 THEN Some("LIFR")
         ELSE IF ceiling[1] < 500 THEN Some("IFR")
         ELSE IF ceiling[1] < 1000 THEN Some("MVFR")
         ELSE Some("VFR")
    ELSE IF vis # None
    THEN IF RatLt(vis[1], Half) THEN Some("LIFR")
         ELSE IF RatLt(vis[1], <<1, 1>>) THEN Some("IFR")
         ELSE IF RatLt(vis[1], <<3, 1>>) THEN Some("MVFR")
         ELSE Some("VFR")
    ELSE None

\* FlightCategoryML with the MVFR rung of the two-value branch asking for
\* both conditions.
FlightCategoryML_BothForMVFR(ceiling, vis) ==
    IF ceiling # None /\ vis # None
    THEN IF ceiling[1] < 200 \/ RatLt(vis[1], Half) THEN Some("LIFR")
         ELSE IF ceiling[1] < 500 \/ RatLt(vis[1], <<1, 1>>) THEN Some("IFR")
         ELSE IF ceiling[1] < 1000 /\ RatLt(vis[1], <<3, 1>>) THEN Some("MVFR")
         ELSE Some("VFR")
    ELSE IF ceiling # None
    THEN IF ceiling[1] < 200 THEN Some("LIFR")
         ELSE IF ceiling[1] < 500 THEN Some("IFR")
         ELSE IF ceiling[1] < 1000 THEN Some("MVFR")
         ELSE Some("VFR")
    ELSE IF vis # None
    THEN IF RatLt(vis[1], Half) THEN Some("LIFR")
         ELSE IF RatLt(vis[1], <<1, 1>>) THEN Some("IFR")
         ELSE IF RatLt(vis[1], <<3, 1>>) THEN Some("MVFR")
         ELSE Some("VFR")
    ELSE None

\* FlightCategoryML with a default of VFR when neither value is present.
FlightCategoryML_DefaultVFR(ceiling, vis) ==
    IF ceiling # None /\ vis # None
    THEN IF ceiling[1] < 200 \/ RatLt(vis[1], Half) THEN Some("LIFR")
         ELSE IF ceiling[1] < 500 \/ RatLt(vis[1], <<1, 1>>) THEN Some("IFR")
         ELSE IF ceiling[1] < 1000 \/ RatLt(vis[1], <<3, 1>>) THEN Some("MVFR")
         ELSE Some("VFR")
    ELSE IF ceiling # None
    THEN IF ceiling[1] < 200 THEN Some("LIFR")
         ELSE IF ceiling[1] < 500 THEN Some("IFR")
         ELSE IF ceiling[1] < 1000 THEN Some("MVFR")
         ELSE Some("VFR")
    ELSE IF vis # None
    THEN IF RatLt(vis[1], Half) THEN Some("LIFR")
         ELSE IF RatLt(vis[1], <<1, 1>>) THEN Some("IFR")
         ELSE IF RatLt(vis[1], <<3, 1>>) THEN Some("MVFR")
         ELSE Some("VFR")
    ELSE Some("VFR")

\* Flight category of metar_logger from ceiling_ft and visibility_sm (each
\* None or a value); None when no branch assigns it.
FlightCategoryML(ceiling, vis) ==
    IF ceiling # None /\ vis # None
    THEN IF ceiling[1] < 200 \/ RatLt(vis[1], Half) THEN Some("LIFR")
         ELSE IF ceiling[1] < 500 \/ RatLt(vis[1], <<1, 1>>) THEN Some("IFR")
         ELSE IF ceiling[1] < 1000 \/ RatLt(vis[1], <<3, 1>>) THEN Some("MVFR")
         ELSE Some("VFR")
    ELSE IF ceiling # None
    THEN IF ceiling[1] < 200 THEN Some("LIFR")
         ELSE IF ceiling[1] < 500 THEN Some("IFR")
         ELSE IF ceiling[1] < 1000 THEN Some("MVFR")
         ELSE Some("VFR")
    ELSE IF vis # None
    THEN IF RatLt(vis[1], Half) THEN Some("LIFR")
         ELSE IF RatLt(vis[1], <<1, 1>>) THEN Some("IFR")
         ELSE IF RatLt(vis[1], <<3, 1>>) THEN Some("MVFR")
         ELSE Some("VFR")
    ELSE None

\* FlightCategoryWL with the comparisons of the ceiling-only branch made
\* inclusive.
FlightCategoryWL_Inclusive(ceiling, vis) ==
    IF ceiling # None /\ vis # None
    THEN IF ceiling[1] < 200 \/ RatLt(vis[1], Half) THEN Some("LIFR")
         ELSE IF ceiling[1] < 500 \/ RatLt(vis[1], <<1, 1>>) THEN Some("IFR")
         ELSE IF ceiling[1] < 1000 \/ RatLt(vis[1], <<3, 1>>) THEN Some("MVFR")
         ELSE Some("VFR")
    ELSE IF ceiling # None
    THEN IF ceiling[1] <= 200 THEN Some("LIFR")
         ELSE IF ceiling[1] <= 500 THEN Some("IFR")
         ELSE IF ceiling[1] <= 1000 THEN Some("MVFR")
         ELSE Some("VFR")
    ELSE None

\* Flight category of weather_logger: there is no visibility-only branch.
FlightCategoryWL(ceiling, vis) ==
    IF ceiling # None /\ vis # None
    THEN IF ceiling[1] < 200 \/ RatLt(vis[1], Half) THEN Some("LIFR")
         ELSE IF ceiling[1] < 500 \/ RatLt(vis[1], <<1, 1>>) THEN Some("IFR")
         ELSE IF ceiling[1] < 1000 \/ RatLt(vis[1], <<3, 1>>) THEN Some("MVFR")
         ELSE Some("VFR")
    ELSE IF ceiling # None
    THEN IF ceiling[1] < 200 THEN Some("LIFR")
         ELSE IF ceiling[1] < 500 THEN Some("IFR")
         ELSE IF ceiling[1] < 1000 THEN Some("MVFR")
         ELSE Some("VFR")
    ELSE None

\* raw_metar.rstrip('$ ').strip().split() on the groups of the text: the
\* trailing '$' characters go, and a group left empty is no group.
RECURSIVE RStripChars(_)
RStripChars(s) ==
    IF s # <<>> /\ s[Len(s)] = "$" THEN RStripChars(SubSeq(s, 1, Len(s) - 1))
    ELSE s

RECURSIVE RStripGroups(_)
RStripGroups(groups) ==
    IF groups = <<>> THEN <<>>
    ELSE LET front == SubSeq(groups, 1, Len(groups) - 1)
             last  == RStripChars(groups[Len(groups)])
         IN  IF last = <<>> THEN RStripGroups(front) ELSE Append(front, last)

\* raw_metar = station_id + ' ' + tds[1].get_text(strip=True), split.
Parts(station_id, cell) == RStripGroups(<<station_id>> \o cell)

\* What a call of fetch_metar gives its caller: kind is "dict" (the result
\* dict is returned), "None" (None is returned) or "raise" (the exception
\* exc leaves fetch_metar); "pending" before the call.
NoResult == EmptyResult(<<>>, <<>>)

Pending == [kind |-> "pending", exc |-> "", result |-> NoResult]

ReturnNone == [kind |-> "None", exc |-> "", result |-> NoResult]

ReturnDict(r) == [kind |-> "dict", exc |-> "", result |-> r]

Propagate(e) == [kind |-> "raise", exc |-> e, result |-> NoResult]

\* metar_logger.fetch_metar: respond is what the HTTP request and the search
\* of the page give ("request_error": requests raises, "no_metar": no row
\* for the station, "ok": the row's cell), now is datetime.now().
FetchMetarML(station_id, respond, cell, now) ==
    IF respond = "request_error" THEN ReturnNone
    ELSE IF respond = "no_metar" THEN ReturnNone
    ELSE LET parts == Parts(station_id, cell)
             loop  == ParseLoopML(parts, 1, EmptyResult(station_id, parts), now)
         IN  IF loop.exc = ""
             THEN ReturnDict([loop.r EXCEPT
                     !.weather_phenomena = WeatherPhenomena(parts),
                     !.flight_category =
                         FlightCategoryML(loop.r.ceiling_ft, loop.r.visibility_sm)])
             ELSE IF loop.exc \in {"ValueError", "KeyError", "AttributeError"}
             THEN ReturnNone
             ELSE Propagate(loop.exc)

\* weather_logger.fetch_metar: `except Exception` turns every exception of
\* the parsing into a None result.
FetchMetarWL(station_id, respond, cell, now) ==
    IF respond = "request_error" THEN ReturnNone
    ELSE IF respond = "no_metar" THEN ReturnNone
    ELSE LET parts == Parts(station_id, cell)
             loop  == ParseLoopWL(parts, 1, EmptyResult(station_id, parts), now)
         IN  IF loop.exc = ""
             THEN ReturnDict([loop.r EXCEPT
                     !.weather_phenomena = WeatherPhenomena(parts),
                     !.flight_category =
                         FlightCategoryWL(loop.r.ceiling_ft, loop.r.visibility_sm)])
             ELSE ReturnNone

-----------------------------------------------------------------------------
(* Reports                                                                 *)

KCOS == <<"K", "C", "O", "S">>

T082354Z == <<"0", "8", "2", "3", "5", "4", "Z">>

T312354Z == <<"3", "1", "2", "3", "5", "4", "Z">>

BKN001 == <<"B", "K", "N", "0", "0", "1">>

VV002 == <<"V", "V", "0", "0", "2">>

OVC005 == <<"O", "V", "C", "0", "0", "5">>

OVC009 == <<"O", "V", "C", "0", "0", "9">>

BKN010 == <<"B", "K", "N", "0", "1", "0">>

FEW004 == <<"F", "E", "W", "0", "0", "4">>

CLR == <<"C", "L", "R">>

BKN == <<"B", "K", "N">>

BKN05 == <<"B", "K", "N", "0", "5">>

V1_4SM == <<"1", "/", "4", "S", "M">>

V1_2SM == <<"1", "/", "2", "S", "M">>

V1SM == <<"1", "S", "M">>

V2SM == <<"2", "S", "M">>

V3SM == <<"3", "S", "M">>

V10SM == <<"1", "0", "S", "M">>

V1_0SM == <<"1", "/", "0", "S", "M">>

VM1_4SM == <<"M", "1", "/", "4", "S", "M">>

SM == <<"S", "M">>

V1_2_3SM == <<"1", "/", "2", "/", "3", "S", "M">>

One == <<"1">>

Dollar == <<"$">>

W04006KT == <<"0", "4", "0", "0", "6", "K", "T">>

W04006G15KT == <<"0", "4", "0", "0", "6", "G", "1", "5", "K", "T">>

VRB05KT == <<"V", "R", "B", "0", "5", "K", "T">>

W00005KT == <<"0", "0", "0", "0", "5", "K", "T">>

W00000KT == <<"0", "0", "0", "0", "0", "K", "T">>

W99906KT == <<"9", "9", "9", "0", "6", "K", "T">>

W040106KT == <<"0", "4", "0", "1", "0", "6", "K", "T">>

V4SM == <<"4", "S", "M">>

MinusSN == <<"-", "S", "N">>

BR == <<"B", "R">>

TM01_M02 == <<"M", "0", "1", "/", "M", "0", "2">>

A2973 == <<"A", "2", "9", "7", "3">>

RMK == <<"R", "M", "K">>

AO2 == <<"A", "O", "2">>

VV == <<"V", "V">>

SKC == <<"S", "K", "C">>

PlusTSRA == <<"+", "T", "S", "R", "A">>

VCSH == <<"V", "C", "S", "H">>

\* Groups whose ceilings and visibilities lie on and around every threshold
\* of the flight category.
CategoryVocab ==
    { T082354Z, BKN001, VV002, OVC005, OVC009, BKN010, FEW004,
      V1_4SM, V1_2SM, V1SM, V2SM, V3SM, V10SM }

\* Sky groups with and without a height, with and without a ceiling coverage.
SkyVocab == { T082354Z, BKN, BKN05, BKN010, OVC009, VV002, FEW004, CLR, V10SM }

\* Malformed and two-group visibilities, a day only some months have, and
\* the marker of an automatic station.
MalformedVocab ==
    { T082354Z, T312354Z, V1_0SM, VM1_4SM, SM, V1_2_3SM, One, V1_2SM,
      OVC009, Dollar }

\* Wind groups: plain, with a gust, variable, from 000 and calm, with a
\* direction past 360 and with a three-digit speed.
WindVocab ==
    { T082354Z, W04006KT, W04006G15KT, VRB05KT, W00005KT, W00000KT,
      W99906KT, W040106KT }

\* A report followed by the remarks marker and groups after it.
RemarkVocab == { T082354Z, RMK, AO2, V10SM, OVC009, BR, W04006KT }

\* Groups of every class, and groups that come close to two classes.
ClassVocab ==
    { T082354Z, W040106KT, VRB05KT, V4SM, SM, TM01_M02, A2973, VV, SKC,
      PlusTSRA, VCSH, MinusSN }

Vocabularies ==
    { CategoryVocab, SkyVocab, MalformedVocab, WindVocab, RemarkVocab,
      ClassVocab }

\* The report of the docstring of weather_logger.fetch_metar, without its
\* station id.
ExampleCell ==
    << T082354Z, W04006KT, V4SM, MinusSN, BR, FEW004, OVC009, TM01_M02, A2973 >>

\* The sequences of at most n elements of S.
SeqsUpTo(S, n) == UNION { [1..k -> S] : k \in 0..n }

Cells == UNION { SeqsUpTo(V, MaxLen) : V \in Vocabularies } \cup { ExampleCell }

\* The values datetime.now() takes: a month of 30 and a month of 31 days.
Clock == { [year |-> 2026, month |-> 11], [year |-> 2026, month |-> 12] }

Responses == {"ok", "request_error", "no_metar"}

-----------------------------------------------------------------------------
(* scripts/script_metrics.py: ItemTracker and ScriptMetrics                *)
(*                                                                         *)
(* A run is one `with ScriptMetrics(...) as metrics:` block.  The object's  *)
(* fields are the record metrics; the ItemTracker objects live in the heap  *)
(* objs (an object is its index), because metrics.items[name] can be        *)
(* rebound to a new object while a track_item block still holds the old     *)
(* one.  A text (a note) is a sequence of one-character strings.            *)

\* The calls the body of the block makes on the metrics object at most.
MaxCalls == 3

\* datetime.now(timezone.utc).isoformat(): the value is never read back.
Timestamp == "now"

ItemNames == {"KCOS", "KDEN"}

\* expected_items of the constructor: the default, none expected, two.
ExpectedItems == {None, Some(0), Some(2)}

\* notes of the constructor.
InitialNotes == {None, Some(<<"i">>)}

\* The notes the body adds with add_note.
Notes == {<<"n">>}

\* records_inserted of item_succeeded.
Records == {0, 1}

\* The codes the body passes to set_exit_code.
ExitCodes == {0, 42}

\* The statuses the body of a track_item block assigns to its item.
BodyStatuses == {"failed", "skipped"}

\* The exceptions the body raises: an Exception and a BaseException that is
\* not an Exception (sys.exit), with str(e).
Exceptions ==
    { [type |-> "RuntimeError", exception |-> TRUE, text |-> "boom"],
      [type |-> "SystemExit", exception |-> FALSE, text |-> ""] }

\* ItemTracker(name=name, item_type=item_type) with the dataclass defaults.
ItemTracker(name, item_type) ==
    [ name |-> name, item_type |-> item_type, status |-> "pending",
      start_time |-> None, end_time |-> None, records_inserted |-> 0,
      error_message |-> None, retry_count |-> 0 ]

\* ScriptMetrics(script_name, expected_items=..., notes=...) with the
\* dataclass defaults; items maps a name to the index of its object in the
\* heap.
ScriptMetrics(expected_items, notes) ==
    [ expected_items |-> expected_items, notes |-> notes,
      start_time |-> None, end_time |-> None, status |-> "running",
      exit_code |-> None, error_message |-> None, error_traceback |-> None,
      items |-> <<>>, total_retries |-> 0, initialized |-> FALSE ]

\* The ItemTracker objects of m.items.values(), by name.
ItemOf(m, heap, name) == heap[m.items[name]]

\* sum(1 for i in self.items.values() if i.status == status)
CountStatus(m, heap, status) ==
    Cardinality({ name \in DOMAIN m.items : ItemOf(m, heap, name).status = status })

RECURSIVE SumRecords(_, _, _)
\* sum(i.records_inserted for i in self.items.values()) over the names left.
SumRecords(m, heap, names) ==
    IF names = {} THEN 0
    ELSE LET name == CHOOSE n \in names : TRUE
         IN  ItemOf(m, heap, name).records_inserted + SumRecords(m, heap, names \ {name})

\* _determine_status with a failed item always failing the run.
DetermineStatus_NoPartial(m, heap) ==
    IF DOMAIN m.items = {}
    THEN IF m.expected_items # None /\ m.expected_items[1] > 0
         THEN "failed" ELSE "success"
    ELSE IF CountStatus(m, heap, "failed") = 0 THEN "success"
    ELSE "failed"

\* _determine_status: the value it assigns to self.status.
DetermineStatus(m, heap) ==
    IF DOMAIN m.items = {}
    THEN IF m.expected_items # None /\ m.expected_items[1] > 0
         THEN "failed" ELSE "success"
    ELSE IF CountStatus(m, heap, "failed") = 0 THEN "success"
    ELSE IF CountStatus(m, heap, "success") = 0 THEN "failed"
    ELSE "partial"

\* The exception branch of __exit__ keeping an exit code set before.
ExitWithException_KeepCode(m, e) ==
    [ m EXCEPT !.end_time = Some(Timestamp),
               !.status = "failed",
               !.error_message = Some(e.text),
               !.error_traceback = Some(e.type),
               !.exit_code = IF @ = None THEN Some(1) ELSE @ ]

\* __exit__ with exc_type not None, up to the database update: the
\* traceback text is represented by the type of the exception.
ExitWithException(m, e) ==
    [ m EXCEPT !.end_time = Some(Timestamp),
               !.status = "failed",
               !.error_message = Some(e.text),
               !.error_traceback = Some(e.type),
               !.exit_code = Some(1) ]

\* The else branch of __exit__ computing the exit code whatever was set.
ExitNormally_Automatic(m, heap) ==
    LET status == DetermineStatus(m, heap)
    IN  [ m EXCEPT !.end_time = Some(Timestamp),
                   !.status = status,
                   !.exit_code = Some(IF status = "success" THEN 0 ELSE 1) ]

\* __exit__ with exc_type None, up to the database update.
ExitNormally(m, heap) ==
    LET status == DetermineStatus(m, heap)
    IN  [ m EXCEPT !.end_time = Some(Timestamp),
                   !.status = status,
                   !.exit_code =
                       IF @ = None
                       THEN Some(IF status = "success" THEN 0 ELSE 1)
                       ELSE @ ]

\* How a database operation ends: well, or with the class of its error.
DatabaseErrors == {"sqlite3.OperationalError", "OSError"}

DbResults == {"ok"} \cup DatabaseErrors

\* The _safe_ methods catching sqlite3.Error alone.
SafeExcept_SqliteOnly == {"sqlite3.OperationalError"}

\* except (sqlite3.Error, OSError): the errors a _safe_ method catches.
SafeExcept == {"sqlite3.OperationalError", "OSError"}

\* The exception a failed database operation is.
DatabaseError(res) == [ type |-> res, exception |-> TRUE, text |-> "" ]

\* The exception in flight after the try statement of a _safe_ method whose
\* operation ended with res, e being in flight before: the methods other
\* than _safe_init_db return at once if not _initialized.
AfterSafe(m, res, e) ==
    IF m.initialized /\ res \notin {"ok"} \cup SafeExcept
    THEN Some(DatabaseError(res))
    ELSE e

\* The rows of the metrics tables of weather.db.
EmptyDb == [ script_runs |-> <<>>, script_run_items |-> <<>>, script_retries |-> <<>> ]

\* _safe_insert_run: the row of INSERT INTO script_runs, the other columns
\* at their defaults; res is how the database operation ends.
SafeInsertRun(m, d, res) ==
    IF m.initialized /\ res = "ok"
    THEN [ d EXCEPT !.script_runs = Append(@,
             [ start_time |-> m.start_time, end_time |-> None,
               status |-> m.status, exit_code |-> None,
               error_message |-> None, error_traceback |-> None,
               total_items_expected |-> m.expected_items,
               total_items_succeeded |-> 0, total_items_failed |-> 0,
               total_records_inserted |-> 0, total_retries |-> 0,
               notes |-> m.notes ]) ]
    ELSE d

\* _safe_update_run: UPDATE script_runs ... WHERE run_id = ?
SafeUpdateRun(m, heap, d, res) ==
    IF m.initialized /\ res = "ok"
    THEN [ d EXCEPT !.script_runs =
             [ k \in DOMAIN @ |->
                 [ @[k] EXCEPT
                     !.end_time = m.end_time,
                     !.status = m.status,
                     !.exit_code = m.exit_code,
                     !.error_message = m.error_message,
                     !.error_traceback = m.error_traceback,
                     !.total_items_succeeded = CountStatus(m, heap, "success"),
                     !.total_items_failed = CountStatus(m, heap, "failed"),
                     !.total_records_inserted = SumRecords(m, heap, DOMAIN m.items),
                     !.total_retries = m.total_retries ] ] ]
    ELSE d

\* _safe_insert_item: the row of INSERT INTO script_run_items is the item.
SafeInsertItem(m, d, item, res) ==
    IF m.initialized /\ res = "ok"
    THEN [ d EXCEPT !.script_run_items = Append(@, item) ]
    ELSE d

\* _safe_insert_retry: the row of INSERT INTO script_retries.
SafeInsertRetry(m, d, attempt, error, item_name, res) ==
    IF m.initialized /\ res = "ok"
    THEN [ d EXCEPT !.script_retries = Append(@,
             [ item_name |-> item_name, attempt_number |-> attempt,
               error_message |-> error ]) ]
    ELSE d

\* self.items[name] = item, the item being the object at index id.
Bind(items, name, id) ==
    [ n \in DOMAIN items \cup {name} |-> IF n = name THEN id ELSE items[n] ]

\* record_retry leaving every retry_count alone.
Retried_Never(m, heap, item_name) == heap

\* record_retry: the heap after `if item_name and item_name in self.items:
\* self.items[item_name].retry_count += 1`.
Retried(m, heap, item_name) ==
    IF item_name # None /\ item_name[1] \in DOMAIN m.items
    THEN [ heap EXCEPT ![m.items[item_name[1]]].retry_count = @ + 1 ]
    ELSE heap

\* __exit__ returns False: the exception of the block is not suppressed.
ExitSuppresses == FALSE

\* metrics: the fields of the ScriptMetrics object; objs: the heap of
\* ItemTracker objects; open: the track_item blocks entered and not left,
\* innermost last; pc: where the script is (before the block, in it, after
\* it); exc: the exception in flight inside the block; raised: the exception
\* the with statement raised to its caller; history: the calls the body has
\* made (their number, the last code passed to set_exit_code, the number of
\* record_retry calls and the item_name of the last one) and the exception
\* handed to __exit__; db: the
\* metrics tables.
VARIABLES metrics, objs, open, pc, exc, raised, history, db

run == <<metrics, objs, open, pc, exc, raised, history, db>>

NoHistory ==
    [ calls |-> 0, set_exit_code |-> None, record_retry |-> 0,
      item_name |-> None, exception |-> None ]

\* ScriptMetrics(...) is constructed and its block not yet entered.
Constructed(expected_items, notes) ==
    /\ metrics = ScriptMetrics(expected_items, notes)
    /\ objs = <<>>
    /\ open = <<>>
    /\ pc = "constructed"
    /\ exc = None
    /\ raised = None
    /\ history = NoHistory
    /\ db = EmptyDb

\* No run is followed: the decoders are called on their own.
NoRun == Constructed(None, None)

-----------------------------------------------------------------------------
(* scripts/db_utils.py: execute_with_retry                                 *)
(*                                                                         *)
(* The operation is the sequence of the outcomes of its invocations: the   *)
(* k-th invocation returns a value or raises an error, an error being its  *)
(* class and its message (a sequence of one-character strings).            *)

\* The largest max_retries a call is made with.
MaxAttempts == 3

DB_MAX_RETRIES == 3

UpperCase ==
    << "A", "B", "C", "D", "E", "F", "G", "H", "I", "J", "K", "L", "M",
       "N", "O", "P", "Q", "R", "S", "T", "U", "V", "W", "X", "Y", "Z" >>

LowerCase ==
    << "a", "b", "c", "d", "e", "f", "g", "h", "i", "j", "k", "l", "m",
       "n", "o", "p", "q", "r", "s", "t", "u", "v", "w", "x", "y", "z" >>

\* str.lower(), character by character.
Lower(s) ==
    [ k \in 1..Len(s) |->
        IF \E j \in 1..Len(UpperCase) : UpperCase[j] = s[k]
        THEN LowerCase[CHOOSE j \in 1..Len(UpperCase) : UpperCase[j] = s[k]]
        ELSE s[k] ]

\* sub in s
Contains(s, sub) ==
    \E k \in 1..(Len(s) - Len(sub) + 1) : SubSeq(s, k, k + Len(sub) - 1) = sub

DatabaseIsLocked ==
    << "d", "a", "t", "a", "b", "a", "s", "e", " ", "i", "s", " ", "l",
       "o", "c", "k", "e", "d" >>

DiskIOError ==
    << "d", "i", "s", "k", " ", "i", "/", "o", " ", "e", "r", "r", "o",
       "r" >>

\* The errors an invocation raises: SQLite's "database is locked" and
\* "disk I/O error" as it words them, an OperationalError with another
\* message, an sqlite3.Error that is no OperationalError, another exception.
Locked == [ class |-> "sqlite3.OperationalError", message |-> DatabaseIsLocked ]

DiskIO ==
    [ class |-> "sqlite3.OperationalError",
      message |->
          << "d", "i", "s", "k", " ", "I", "/", "O", " ", "e", "r", "r",
             "o", "r" >> ]

NoSuchTable ==
    [ class |-> "sqlite3.OperationalError",
      message |->
          << "n", "o", " ", "s", "u", "c", "h", " ", "t", "a", "b", "l",
             "e", ":", " ", "m", "e", "t", "a", "r" >> ]

Integrity ==
    [ class |-> "sqlite3.IntegrityError",
      message |->
          << "c", "o", "n", "s", "t", "r", "a", "i", "n", "t", " ", "f",
             "a", "i", "l", "e", "d" >> ]

NotSqlite ==
    [ class |-> "ValueError",
      message |->
          << "d", "a", "t", "a", "b", "a", "s", "e", " ", "i", "s", " ",
             "l", "o", "c", "k", "e", "d" >> ]

Unexpected ==
    [ class |-> "RuntimeError",
      message |->
          << "U", "n", "e", "x", "p", "e", "c", "t", "e", "d", " ", "s",
             "t", "a", "t", "e", " ", "i", "n", " ", "e", "x", "e", "c",
             "u", "t", "e", "_", "w", "i", "t", "h", "_", "r", "e", "t",
             "r", "y" >> ]

Returns(value) == [ raises |-> FALSE, value |-> value, error |-> Unexpected ]

Raises(error) == [ raises |-> TRUE, value |-> 0, error |-> error ]

\* The test of the except clause with every OperationalError retried.
Retryable_AnyOperationalError(e) == e.class = "sqlite3.OperationalError"

\* except sqlite3.OperationalError as e, and the test on str(e).lower().
Retryable(e) ==
    /\ e.class = "sqlite3.OperationalError"
    /\ \/ Contains(Lower(e.message), DatabaseIsLocked)
       \/ Contains(Lower(e.message), DiskIOError)

\* The condition of the sleep with a sleep after every failed attempt.
SleepsAfter_Every(attempt, max_retries) == TRUE

\* if attempt < max_retries: the failed attempt is followed by a sleep.
SleepsAfter(attempt, max_retries) == attempt < max_retries

RECURSIVE RetryLoop(_, _, _, _, _)
\* The for loop of execute_with_retry from the given attempt on and the
\* statements after it; events lists the invocations ("call") and the
\* sleeps ("sleep") so far.  The result is how the call ends and its events.
RetryLoop(operation, max_retries, attempt, last_error, events) ==
    IF attempt > max_retries
    THEN [ outcome |-> Raises(IF last_error # None THEN last_error[1] ELSE Unexpected),
           events |-> events ]
    ELSE LET out    == operation[attempt]
             called == Append(events, "call")
         IN  IF ~out.raises
             THEN [ outcome |-> out, events |-> called ]
             ELSE IF Retryable(out.error)
             THEN RetryLoop(operation, max_retries, attempt + 1, Some(out.error),
                            IF SleepsAfter(attempt, max_retries)
                            THEN Append(called, "sleep") ELSE called)
             ELSE [ outcome |-> out, events |-> called ]

\* execute_with_retry(operation, conn, description, max_retries)
ExecuteWithRetry(operation, max_retries) ==
    RetryLoop(operation, max_retries, 1, None, <<>>)

\* The outcomes of one invocation.
Outcomes ==
    { Returns(1), Raises(Locked), Raises(DiskIO), Raises(NoSuchTable),
      Raises(NotSqlite) }

\* The operations of up to n invocations.
Operations(n) == [1..n -> Outcomes]

\* retry: a call of execute_with_retry, its arguments and how it ended.
VARIABLES retry

NotCalled == [ outcome |-> Returns(0), events |-> <<>> ]

NoRetry ==
    retry = [ operation |-> <<>>, max_retries |-> 0, called |-> FALSE,
              result |-> NotCalled ]

-----------------------------------------------------------------------------
(* store_metar and the metar table                                         *)

\* The store_metar calls of a run.
MaxStores == 2

KFLY == <<"K", "F", "L", "Y">>

\* The row of the INSERT: fetch_time and the columns of the dict.
Row(fetch_time, metar) ==
    [ column \in DOMAIN metar \cup {"fetch_time"} |->
        IF column = "fetch_time" THEN fetch_time ELSE metar[column] ]

\* The row has the key of the metar: UNIQUE(station_id, observation_time).
SameKey(row, metar) ==
    /\ row.station_id = metar.station_id
    /\ row.observation_time = metar.observation_time

\* INSERT OR IGNORE taking the row of a key the table has.
InsertOrIgnore_Always(rows, fetch_time, metar) ==
    IF metar.observation_time = None
    THEN [ rows |-> rows, rowcount |-> 0 ]
    ELSE [ rows |-> Append(rows, Row(fetch_time, metar)), rowcount |-> 1 ]

\* INSERT OR IGNORE INTO metar: the row is skipped if observation_time is
\* NULL (NOT NULL) or the table has the key (UNIQUE); the rows after it and
\* cursor.rowcount.
InsertOrIgnore(rows, fetch_time, metar) ==
    IF \/ metar.observation_time = None
       \/ \E k \in 1..Len(rows) : SameKey(rows[k], metar)
    THEN [ rows |-> rows, rowcount |-> 0 ]
    ELSE [ rows |-> Append(rows, Row(fetch_time, metar)), rowcount |-> 1 ]

\* The entry of a plan for an invocation the database lets through.
Works == [ class |-> "", message |-> <<>> ]

\* do_insert as an operation of execute_with_retry: the invocations that
\* the plan lets through return the rowcount, the others raise its error.
DoInsert(plan, rowcount) ==
    [ k \in DOMAIN plan |->
        IF plan[k] = Works THEN Returns(rowcount) ELSE Raises(plan[k]) ]

\* except sqlite3.Error
IsSqliteError(e) ==
    e.class \in {"sqlite3.OperationalError", "sqlite3.IntegrityError"}

\* metar_logger.store_metar(conn, fetch_time, metar) on the rows, the
\* database answering the invocations of do_insert by the plan: the rows
\* after it, what it returns (<<TRUE>>, <<FALSE>>) or raises, and the error
\* of the database if it met one.
StoreMetarML(rows, fetch_time, metar, plan) ==
    LET insert == InsertOrIgnore(rows, fetch_time, metar)
        call   == ExecuteWithRetry(DoInsert(plan, insert.rowcount), DB_MAX_RETRIES)
    IN  IF ~call.outcome.raises
        THEN [ rows |-> insert.rows, returned |-> Some(call.outcome.value > 0),
               raised |-> None, error |-> None ]
        ELSE IF IsSqliteError(call.outcome.error)
        THEN [ rows |-> rows, returned |-> Some(FALSE), raised |-> None,
               error |-> Some(call.outcome.error) ]
        ELSE [ rows |-> rows, returned |-> None,
               raised |-> Some(call.outcome.error),
               error |-> Some(call.outcome.error) ]

\* weather_logger.store_metar(conn, fetch_time, metar): one
\* cursor.execute, answered by the first entry of the plan; it returns None.
StoreMetarWL(rows, fetch_time, metar, plan) ==
    LET insert == InsertOrIgnore(rows, fetch_time, metar)
    IN  IF plan[1] = Works
        THEN [ rows |-> insert.rows, returned |-> None, raised |-> None,
               error |-> None ]
        ELSE IF IsSqliteError(plan[1])
        THEN [ rows |-> rows, returned |-> None, raised |-> None,
               error |-> Some(plan[1]) ]
        ELSE [ rows |-> rows, returned |-> None, raised |-> Some(plan[1]),
               error |-> Some(plan[1]) ]

\* How the database answers the attempts of an insert: at once, after a
\* lock, never (locked at every attempt), with an error that is not retried.
InsertPlans ==
    { <<Works, Works, Works>>, <<Locked, Works, Works>>,
      <<Locked, DiskIO, Locked>>, <<NoSuchTable, Works, Works>> }

\* The pages the stored reports are decoded from: two observations of the
\* same minute, one of another day, one without a time group.
StoredCells == { <<T082354Z>>, <<T082354Z, V10SM>>, <<T312354Z>>, <<V10SM>> }

December == [ year |-> 2026, month |-> 12 ]

\* The dicts the decoders give store_metar.
StoredReports ==
    { FetchMetarML(station_id, "ok", c, December).result :
        station_id \in {KCOS, KFLY}, c \in StoredCells }

FetchTimes == {"f1", "f2"}

\* table: the rows of the metar table; store: the last call of store_metar,
\* its arguments, what it returned, the error of the database it met, and
\* the number of calls so far.
VARIABLES table, store

NoStore ==
    [ calls |-> 0, caller |-> "", fetch_time |-> "", metar |-> NoResult,
      returned |-> None, raised |-> None, error |-> None ]

NoStores == table = <<>> /\ store = NoStore

-----------------------------------------------------------------------------
(* metar_logger.main                                                       *)

\* The stations of METAR_STATIONS the run goes through.
MaxStations == 2

METAR_STATIONS ==
    << KCOS, KFLY, <<"K", "A", "F", "F">>, <<"K", "F", "C", "S">>,
       <<"K", "A", "P", "A">>, <<"K", "P", "U", "B">> >>

Stations == SubSeq(METAR_STATIONS, 1, MaxStations)

\* What AirNav answers for a station: a report with a time group, a report
\* without one, a report whose visibility divides by zero, no answer.
Pages ==
    { [ respond |-> "ok", cell |-> <<T082354Z, V10SM>> ],
      [ respond |-> "ok", cell |-> <<V10SM>> ],
      [ respond |-> "ok", cell |-> <<T082354Z, V1_0SM>> ],
      [ respond |-> "request_error", cell |-> <<>> ] }

\* The metar table before the run: empty, or with the row an earlier run
\* stored for the first station and the observation of the page.
EarlierTables ==
    { <<>>, << Row("f0", FetchMetarML(KCOS, "ok", <<T082354Z>>, December).result) >> }

\* item_succeeded(name, records_inserted=records_inserted, item_type='metar')
SucceededItem(name, records_inserted) ==
    [ ItemTracker(name, Some("metar")) EXCEPT
        !.status = "success",
        !.start_time = Some(Timestamp),
        !.end_time = Some(Timestamp),
        !.records_inserted = records_inserted ]

\* item_failed(name, "Failed to fetch or parse METAR", item_type='metar')
FailedItem(name) ==
    [ ItemTracker(name, Some("metar")) EXCEPT
        !.status = "failed",
        !.start_time = Some(Timestamp),
        !.end_time = Some(Timestamp),
        !.error_message = Some("Failed to fetch or parse METAR") ]

\* The exception of the class that leaves a call.
Exception(class, text) == [ type |-> class, exception |-> TRUE, text |-> text ]

\* return 0 if metrics.status != "failed" else 1
ReturnCode(status) == IF status # "failed" THEN 0 ELSE 1

\* main: where main() is (pc), the index of the station the loop is at (i),
\* the outcome it recorded for each station so far, with the
\* observation_time of the report it fetched (outcomes), whether a commit
\* failed (commit_failed), and what main() returned.
VARIABLES main

NoMain ==
    main = [ pc |-> "with", i |-> 1, outcomes |-> <<>>, commit_failed |-> FALSE,
             returned |-> None ]

-----------------------------------------------------------------------------
(* The two decoders on one page                                            *)

VARIABLES station, respond, cell, ml, wl

decoders == <<station, respond, cell, ml, wl>>

\* The variables of the other scripts.
others == <<retry, table, store, main>>

vars == <<decoders, run, others>>

Init ==
    /\ station = KCOS
    /\ respond \in Responses
    /\ cell \in (IF respond = "ok" THEN Cells ELSE {<<>>})
    /\ ml = Pending
    /\ wl = Pending
    /\ NoRun
    /\ NoRetry
    /\ NoStores
    /\ NoMain

\* metar_logger.fetch_metar(station) is called and returns or raises.
MetarLoggerFetch ==
    /\ ml.kind = "pending"
    /\ \E now \in Clock : ml' = FetchMetarML(station, respond, cell, now)
    /\ UNCHANGED <<station, respond, cell, wl, run, others>>

\* weather_logger.fetch_metar(station) is called and returns.
WeatherLoggerFetch ==
    /\ wl.kind = "pending"
    /\ \E now \in Clock : wl' = FetchMetarWL(station, respond, cell, now)
    /\ UNCHANGED <<station, respond, cell, ml, run, others>>

Next == MetarLoggerFetch \/ WeatherLoggerFetch

Spec == Init /\ [][Next]_vars

-----------------------------------------------------------------------------
(* One run of a script under ScriptMetrics                                 *)

InitMetrics ==
    /\ station = KCOS
    /\ respond = "ok"
    /\ cell = <<>>
    /\ ml = Pending
    /\ wl = Pending
    /\ \E expected_items \in ExpectedItems, notes \in InitialNotes :
           Constructed(expected_items, notes)
    /\ NoRetry
    /\ NoStores
    /\ NoMain

\* The body of the block can make a call: it runs, nothing is in flight.
InBody == pc = "block" /\ exc = None /\ history.calls < MaxCalls

Called1 == [ history EXCEPT !.calls = @ + 1 ]

\* __enter__: _safe_init_db, then _safe_insert_run; an error that a _safe_
\* method does not catch leaves __enter__, and the with statement.
Enter ==
    /\ pc = "constructed"
    /\ \E init, insert \in DbResults :
           LET m == [ metrics EXCEPT !.start_time = Some(Timestamp),
                                     !.initialized = (init = "ok") ]
               escaped == IF init \notin {"ok"} \cup SafeExcept
                          THEN Some(DatabaseError(init))
                          ELSE AfterSafe(m, insert, None)
           IN  /\ metrics' = IF init \in {"ok"} \cup SafeExcept THEN m
                             ELSE [ metrics EXCEPT !.start_time = Some(Timestamp) ]
               /\ db' = IF init \in {"ok"} \cup SafeExcept
                        THEN SafeInsertRun(m, db, insert) ELSE db
               /\ raised' = escaped
               /\ pc' = IF escaped = None THEN "block" ELSE "exited"
    /\ UNCHANGED <<decoders, others, objs, open, exc, history>>

\* metrics.item_succeeded(name, records_inserted)
ItemSucceeded ==
    /\ InBody
    /\ \E name \in ItemNames, records_inserted \in Records, res \in DbResults :
           LET item == [ ItemTracker(name, None) EXCEPT
                           !.status = "success",
                           !.start_time = Some(Timestamp),
                           !.end_time = Some(Timestamp),
                           !.records_inserted = records_inserted ]
           IN  /\ objs' = Append(objs, item)
               /\ metrics' = [ metrics EXCEPT
                                 !.items = Bind(@, name, Len(objs) + 1) ]
               /\ db' = SafeInsertItem(metrics, db, item, res)
               /\ exc' = AfterSafe(metrics, res, exc)
    /\ history' = Called1
    /\ UNCHANGED <<decoders, others, open, pc, raised>>

\* metrics.item_failed(name, error)
ItemFailed ==
    /\ InBody
    /\ \E name \in ItemNames, res \in DbResults :
           LET item == [ ItemTracker(name, None) EXCEPT
                           !.status = "failed",
                           !.start_time = Some(Timestamp),
                           !.end_time = Some(Timestamp),
                           !.error_message = Some("error") ]
           IN  /\ objs' = Append(objs, item)
               /\ metrics' = [ metrics EXCEPT
                                 !.items = Bind(@, name, Len(objs) + 1) ]
               /\ db' = SafeInsertItem(metrics, db, item, res)
               /\ exc' = AfterSafe(metrics, res, exc)
    /\ history' = Called1
    /\ UNCHANGED <<decoders, others, open, pc, raised>>

\* with metrics.track_item(name) as item: up to the yield.
TrackItem ==
    /\ InBody
    /\ \E name \in ItemNames :
           LET item == [ ItemTracker(name, None) EXCEPT
                           !.status = "running",
                           !.start_time = Some(Timestamp) ]
           IN  /\ objs' = Append(objs, item)
               /\ metrics' = [ metrics EXCEPT
                                 !.items = Bind(@, name, Len(objs) + 1) ]
               /\ open' = Append(open, Len(objs) + 1)
    /\ history' = Called1
    /\ UNCHANGED <<decoders, others, pc, exc, raised, db>>

\* The body of the innermost track_item block assigns item.status.
BodySetsStatus ==
    /\ InBody
    /\ open # <<>>
    /\ \E status \in BodyStatuses :
           objs' = [ objs EXCEPT ![open[Len(open)]].status = status ]
    /\ history' = Called1
    /\ UNCHANGED <<decoders, others, metrics, open, pc, exc, raised, db>>

\* The body of the innermost track_item block ends: the code after the
\* yield and the finally clause.
TrackItemReturns ==
    /\ pc = "block"
    /\ exc = None
    /\ open # <<>>
    /\ \E res \in DbResults :
           LET id   == open[Len(open)]
               item == [ objs[id] EXCEPT
                           !.status = IF @ = "running" THEN "success" ELSE @,
                           !.end_time = Some(Timestamp) ]
           IN  /\ objs' = [ objs EXCEPT ![id] = item ]
               /\ db' = SafeInsertItem(metrics, db, item, res)
               /\ exc' = AfterSafe(metrics, res, exc)
    /\ open' = SubSeq(open, 1, Len(open) - 1)
    /\ UNCHANGED <<decoders, others, metrics, pc, raised, history>>

\* An exception reaches the innermost track_item block: the except
\* Exception clause if it is an Exception, and the finally clause.
TrackItemRaises ==
    /\ pc = "block"
    /\ exc # None
    /\ open # <<>>
    /\ \E res \in DbResults :
           LET id   == open[Len(open)]
               e    == exc[1]
               item == [ objs[id] EXCEPT
                           !.status = IF e.exception THEN "failed" ELSE @,
                           !.error_message =
                               IF e.exception THEN Some(e.text) ELSE @,
                           !.end_time = Some(Timestamp) ]
           IN  /\ objs' = [ objs EXCEPT ![id] = item ]
               /\ db' = SafeInsertItem(metrics, db, item, res)
               /\ exc' = AfterSafe(metrics, res, exc)
    /\ open' = SubSeq(open, 1, Len(open) - 1)
    /\ UNCHANGED <<decoders, others, metrics, pc, raised, history>>

\* metrics.record_retry(attempt, error, item_name=item_name)
RecordRetry ==
    /\ InBody
    /\ \E item_name \in {None} \cup { Some(n) : n \in ItemNames },
          res \in DbResults :
           /\ metrics' = [ metrics EXCEPT !.total_retries = @ + 1 ]
           /\ objs' = Retried(metrics, objs, item_name)
           /\ db' = SafeInsertRetry(metrics, db, 1, "error", item_name, res)
           /\ exc' = AfterSafe(metrics, res, exc)
           /\ history' = [ Called1 EXCEPT !.record_retry = @ + 1,
                                          !.item_name = item_name ]
    /\ UNCHANGED <<decoders, others, open, pc, raised>>

\* metrics.set_exit_code(code)
SetExitCode ==
    /\ InBody
    /\ \E code \in ExitCodes :
           /\ metrics' = [ metrics EXCEPT !.exit_code = Some(code) ]
           /\ history' = [ Called1 EXCEPT !.set_exit_code = Some(code) ]
    /\ UNCHANGED <<decoders, others, objs, open, pc, exc, raised, db>>

\* metrics.add_note(note)
AddNote ==
    /\ InBody
    /\ \E note \in Notes :
           metrics' = [ metrics EXCEPT
                          !.notes = IF @ # None /\ @[1] # <<>>
                                    THEN Some(@[1] \o <<";", " ">> \o note)
                                    ELSE Some(note) ]
    /\ history' = Called1
    /\ UNCHANGED <<decoders, others, objs, open, pc, exc, raised, db>>

\* A statement of the body raises.
BodyRaises ==
    /\ InBody
    /\ \E e \in Exceptions : exc' = Some(e)
    /\ history' = Called1
    /\ UNCHANGED <<decoders, others, metrics, objs, open, pc, raised, db>>

\* A try statement of the body catches the exception in flight.
BodyCatches ==
    /\ pc = "block"
    /\ exc # None
    /\ exc' = None
    /\ UNCHANGED <<decoders, others, metrics, objs, open, pc, raised, history, db>>

\* __exit__(None, None, None): the body ended.
ExitWithoutException ==
    /\ pc = "block"
    /\ exc = None
    /\ open = <<>>
    /\ \E res \in DbResults :
           LET m == ExitNormally(metrics, objs)
           IN  /\ metrics' = m
               /\ db' = SafeUpdateRun(m, objs, db, res)
               /\ raised' = AfterSafe(m, res, None)
    /\ pc' = "exited"
    /\ history' = [ history EXCEPT !.exception = None ]
    /\ UNCHANGED <<decoders, others, objs, open, exc>>

\* __exit__(exc_type, exc_val, exc_tb): an exception leaves the body.
ExitOnException ==
    /\ pc = "block"
    /\ exc # None
    /\ open = <<>>
    /\ \E res \in DbResults :
           LET m == ExitWithException(metrics, exc[1])
           IN  /\ metrics' = m
               /\ db' = SafeUpdateRun(m, objs, db, res)
               /\ raised' = AfterSafe(m, res, IF ExitSuppresses THEN None ELSE exc)
    /\ pc' = "exited"
    /\ exc' = None
    /\ history' = [ history EXCEPT !.exception = exc ]
    /\ UNCHANGED <<decoders, others, objs, open>>

NextMetrics ==
    \/ Enter
    \/ ItemSucceeded
    \/ ItemFailed
    \/ TrackItem
    \/ BodySetsStatus
    \/ TrackItemReturns
    \/ TrackItemRaises
    \/ RecordRetry
    \/ SetExitCode
    \/ AddNote
    \/ BodyRaises
    \/ BodyCatches
    \/ ExitWithoutException
    \/ ExitOnException

SpecMetrics == InitMetrics /\ [][NextMetrics]_vars

-----------------------------------------------------------------------------
(* One call of execute_with_retry                                          *)

DecodersIdle ==
    /\ station = KCOS
    /\ respond = "ok"
    /\ cell = <<>>
    /\ ml = Pending
    /\ wl = Pending

InitRetry ==
    /\ DecodersIdle
    /\ NoRun
    /\ NoStores
    /\ NoMain
    /\ \E max_retries \in 0..MaxAttempts :
           \E operation \in Operations(MaxAttempts) :
               retry = [ operation |-> operation, max_retries |-> max_retries,
                         called |-> FALSE, result |-> NotCalled ]

\* execute_with_retry(operation, conn, description, max_retries) is called
\* and returns or raises.
CallExecuteWithRetry ==
    /\ ~retry.called
    /\ retry' = [ retry EXCEPT
                    !.called = TRUE,
                    !.result = ExecuteWithRetry(retry.operation, retry.max_retries) ]
    /\ UNCHANGED <<decoders, run, table, store, main>>

NextRetry == CallExecuteWithRetry

SpecRetry == InitRetry /\ [][NextRetry]_vars

-----------------------------------------------------------------------------
(* Calls of store_metar on one table                                       *)

InitStore ==
    /\ DecodersIdle
    /\ NoRun
    /\ NoRetry
    /\ NoStores
    /\ NoMain

\* The record of a call that ended as after.
Stored(caller, fetch_time, metar, after) ==
    [ calls |-> store.calls + 1, caller |-> caller, fetch_time |-> fetch_time,
      metar |-> metar, returned |-> after.returned, raised |-> after.raised,
      error |-> after.error ]

\* metar_logger.store_metar(conn, fetch_time, metar)
MetarLoggerStore ==
    /\ store.calls < MaxStores
    /\ \E fetch_time \in FetchTimes, metar \in StoredReports, plan \in InsertPlans :
           LET after == StoreMetarML(table, fetch_time, metar, plan)
           IN  /\ table' = after.rows
               /\ store' = Stored("metar_logger", fetch_time, metar, after)
    /\ UNCHANGED <<decoders, run, retry, main>>

\* weather_logger.store_metar(conn, fetch_time, metar)
WeatherLoggerStore ==
    /\ store.calls < MaxStores
    /\ \E fetch_time \in FetchTimes, metar \in StoredReports, plan \in InsertPlans :
           LET after == StoreMetarWL(table, fetch_time, metar, plan)
           IN  /\ table' = after.rows
               /\ store' = Stored("weather_logger", fetch_time, metar, after)
    /\ UNCHANGED <<decoders, run, retry, main>>

NextStore == MetarLoggerStore \/ WeatherLoggerStore

SpecStore == InitStore /\ [][NextStore]_vars

-----------------------------------------------------------------------------
(* One run of metar_logger.main                                            *)

InitMain ==
    /\ DecodersIdle
    /\ Constructed(Some(Len(Stations)), None)
    /\ NoRetry
    /\ table \in EarlierTables
    /\ store = NoStore
    /\ NoMain

\* with ScriptMetrics('metar_logger', expected_items=len(METAR_STATIONS))
MainEnter ==
    /\ main.pc = "with"
    /\ Enter

\* The with statement is entered: fetch_time, get_connection, the loop.
MainBegin ==
    /\ main.pc = "with"
    /\ pc = "block"
    /\ main' = [ main EXCEPT !.pc = "loop" ]
    /\ UNCHANGED <<decoders, run, retry, table, store>>

\* self.items[name] = item and _safe_insert_item(item), the database
\* answering res.
Record(item, res) ==
    /\ objs' = Append(objs, item)
    /\ metrics' = [ metrics EXCEPT !.items = Bind(@, item.name, Len(objs) + 1) ]
    /\ db' = SafeInsertItem(metrics, db, item, res)
    /\ exc' = AfterSafe(metrics, res, exc)

\* The body of the loop for the station name, fetch_metar having ended as
\* fetched and store_metar, if it is called, ending as after: conn.commit
\* and item_succeeded, or item_failed; an exception of fetch_metar, of
\* store_metar, of conn.commit or of the recording leaves the loop, and
\* conn.close() drops what was not committed.
LoopBody(name, fetched, after, commit, res) ==
    LET recorded(o) ==
            [ main EXCEPT
                !.pc = IF AfterSafe(metrics, res, exc) # None
                       THEN "leave" ELSE "loop",
                !.i = @ + 1,
                !.outcomes = Append(@,
                    [ station |-> name, outcome |-> o,
                      observation_time |-> fetched.result.observation_time ]) ]
    IN  IF fetched.kind = "raise"
        THEN /\ exc' = Some(Exception(fetched.exc, "float division by zero"))
             /\ main' = [ main EXCEPT !.pc = "leave" ]
             /\ UNCHANGED <<metrics, objs, db, table, store>>
        ELSE IF fetched.kind = "dict" /\ fetched.result.observation_time # None
        THEN /\ store' = Stored("metar_logger", "f1", fetched.result, after)
             /\ IF after.raised # None
                THEN /\ exc' = Some(Exception(after.raised[1].class, ""))
                     /\ main' = [ main EXCEPT !.pc = "leave" ]
                     /\ UNCHANGED <<metrics, objs, db, table>>
                ELSE IF after.returned = Some(TRUE) /\ commit # Works
                THEN /\ exc' = Some(Exception(commit.class, "database is locked"))
                     /\ main' = [ main EXCEPT !.pc = "leave",
                                              !.commit_failed = TRUE ]
                     /\ UNCHANGED <<metrics, objs, db, table>>
                ELSE /\ table' = after.rows
                     /\ Record(SucceededItem(name,
                            IF after.returned = Some(TRUE) THEN 1 ELSE 0), res)
                     /\ main' = recorded("succeeded")
        ELSE /\ Record(FailedItem(name), res)
             /\ main' = recorded("failed")
             /\ UNCHANGED <<table, store>>

\* fetch_metar(station) and store_metar(conn, fetch_time, metar) of one turn
\* of the loop, the database answering the insert by the plan.
FetchAndStore(name, fetched, plan, commit, res) ==
    LoopBody(name, fetched, StoreMetarML(table, "f1", fetched.result, plan),
             commit, res)

\* One turn of the loop over METAR_STATIONS.
MainStation ==
    /\ main.pc = "loop"
    /\ exc = None
    /\ main.i <= Len(Stations)
    /\ \E page \in Pages, now \in Clock, plan \in InsertPlans,
          commit \in {Works, Locked}, res \in DbResults :
           FetchAndStore(Stations[main.i],
                         FetchMetarML(Stations[main.i], page.respond, page.cell, now),
                         plan, commit, res)
    /\ UNCHANGED <<decoders, retry, open, pc, raised, history>>

\* After the loop: db_utils.commit_with_retry(conn, "final commit"), the
\* database answering its attempts by the plan, and conn.close().
MainCommit ==
    /\ main.pc = "loop"
    /\ exc = None
    /\ main.i > Len(Stations)
    /\ \E plan \in InsertPlans :
           LET call == ExecuteWithRetry(DoInsert(plan, 0), DB_MAX_RETRIES)
           IN  /\ exc' = IF call.outcome.raises
                         THEN Some(Exception(call.outcome.error.class,
                                             "database is locked"))
                         ELSE None
               /\ main' = [ main EXCEPT !.pc = "leave",
                                        !.commit_failed = call.outcome.raises ]
    /\ UNCHANGED <<decoders, retry, table, store, metrics, objs, open, pc,
                   raised, history, db>>

\* The block is left by its end.
MainExit ==
    /\ main.pc = "leave"
    /\ ExitWithoutException

\* The block is left by an exception.
MainExitByException ==
    /\ main.pc = "leave"
    /\ ExitOnException

\* return 0 if metrics.status != "failed" else 1, unless the with statement
\* raised.
MainReturn ==
    /\ main.pc \in {"with", "leave"}
    /\ pc = "exited"
    /\ main' = IF raised = None
               THEN [ main EXCEPT !.pc = "returned",
                                  !.returned = Some(ReturnCode(metrics.status)) ]
               ELSE [ main EXCEPT !.pc = "raised" ]
    /\ UNCHANGED <<decoders, run, retry, table, store>>

NextMain ==
    \/ MainEnter
    \/ MainBegin
    \/ MainStation
    \/ MainCommit
    \/ MainExit
    \/ MainExitByException
    \/ MainReturn

SpecMain == InitMain /\ [][NextMain]_vars

-----------------------------------------------------------------------------
(* Properties of the flight category                                       *)

\* A call of fetch_metar that returned the result dict.
Decoded(o) == o.kind = "dict"

\* The groups the loop of fetch_metar went over.
ReportParts == Parts(station, cell)

\* The ladder over a ceiling in feet and a visibility in statute miles.
LadderBoth(c, v) ==
    IF c < 200 \/ RatLt(v, <<1, 2>>) THEN "LIFR"
    ELSE IF c < 500 \/ RatLt(v, <<1, 1>>) THEN "IFR"
    ELSE IF c < 1000 \/ RatLt(v, <<3, 1>>) THEN "MVFR"
    ELSE "VFR"

LadderCeiling(c) ==
    IF c < 200 THEN "LIFR" ELSE IF c < 500 THEN "IFR"
    ELSE IF c < 1000 THEN "MVFR" ELSE "VFR"

LadderVisibility(v) ==
    IF RatLt(v, <<1, 2>>) THEN "LIFR" ELSE IF RatLt(v, <<1, 1>>) THEN "IFR"
    ELSE IF RatLt(v, <<3, 1>>) THEN "MVFR" ELSE "VFR"

BothPresent(o) ==
    Decoded(o) /\ o.result.ceiling_ft # None /\ o.result.visibility_sm # None

CeilingOnly(o) ==
    Decoded(o) /\ o.result.ceiling_ft # None /\ o.result.visibility_sm = None

VisibilityOnly(o) ==
    Decoded(o) /\ o.result.ceiling_ft = None /\ o.result.visibility_sm # None

NeitherPresent(o) ==
    Decoded(o) /\ o.result.ceiling_ft = None /\ o.result.visibility_sm = None

\* C1: when a decoded report has both a ceiling and a visibility, each of the
\* two decoders sets flight_category to LIFR if ceiling<200 or
\* visibility<0.5, else IFR if ceiling<500 or visibility<1, else MVFR if
\* ceiling<1000 or visibility<3, else VFR: a function of the pair alone.
C1_CategoryOfCeilingAndVisibility ==
    \A o \in {ml, wl} :
        BothPresent(o) =>
            o.result.flight_category =
                Some(LadderBoth(o.result.ceiling_ft[1], o.result.visibility_sm[1]))

\* Both decoders returned a report with ceiling 100 ft and visibility 10 SM,
\* which the low ceiling makes LIFR.
C1_Witness ==
    \A o \in {ml, wl} :
        /\ BothPresent(o)
        /\ o.result.ceiling_ft = Some(100)
        /\ RatEq(o.result.visibility_sm[1], <<10, 1>>)
        /\ o.result.flight_category = Some("LIFR")

Rank(cat) ==
    CASE cat = "LIFR" -> 0 [] cat = "IFR" -> 1 [] cat = "MVFR" -> 2 [] cat = "VFR" -> 3

Stricter(a, b) == IF Rank(a) <= Rank(b) THEN a ELSE b

\* C2: in metar_logger the category of a report with ceiling c and
\* visibility v is the stricter (LIFR < IFR < MVFR < VFR) of the category
\* the decoder computes from c alone and the one it computes from v alone.
C2_StricterCategoryWins ==
    BothPresent(ml) =>
        ml.result.flight_category =
            Some(Stricter(FlightCategoryML(ml.result.ceiling_ft, None)[1],
                          FlightCategoryML(None, ml.result.visibility_sm)[1]))

\* metar_logger returned a report that is MVFR by its ceiling (900 ft) and
\* VFR by its visibility (10 SM), and called it MVFR.
C2_Witness ==
    /\ BothPresent(ml)
    /\ ml.result.ceiling_ft = Some(900)
    /\ RatEq(ml.result.visibility_sm[1], <<10, 1>>)
    /\ ml.result.flight_category = Some("MVFR")

\* C3: when a report yields a visibility but no ceiling, each of the two
\* decoders sets flight_category from the visibility thresholds alone:
\* LIFR if visibility<0.5, else IFR if <1, else MVFR if <3, else VFR.
C3_CategoryOfVisibilityAlone ==
    \A o \in {ml, wl} :
        VisibilityOnly(o) =>
            o.result.flight_category =
                Some(LadderVisibility(o.result.visibility_sm[1]))

\* C4: when a report yields a ceiling but no visibility, flight_category is
\* LIFR if ceiling<200, else IFR if ceiling<500, else MVFR if ceiling<1000,
\* else VFR, the comparisons strict (1000 ft is VFR, 500 MVFR, 200 IFR).
C4_CategoryOfCeilingAlone ==
    \A o \in {ml, wl} :
        CeilingOnly(o) =>
            o.result.flight_category = Some(LadderCeiling(o.result.ceiling_ft[1]))

\* Both decoders returned a report with a ceiling of exactly 1000 ft and no
\* visibility, as VFR.
C4_Witness ==
    \A o \in {ml, wl} :
        /\ CeilingOnly(o)
        /\ o.result.ceiling_ft = Some(1000)
        /\ o.result.flight_category = Some("VFR")

\* C5 as stated: when a report yields neither a ceiling nor a visibility,
\* flight_category is the explicit value Unknown, and flight_category always
\* is one of LIFR, IFR, MVFR, VFR, Unknown.
C5_UnknownCategory ==
    \A o \in {ml, wl} :
        /\ NeitherPresent(o) => o.result.flight_category = Some("Unknown")
        /\ Decoded(o) =>
               o.result.flight_category \in
                   { Some("LIFR"), Some("IFR"), Some("MVFR"), Some("VFR"),
                     Some("Unknown") }

\* C5 amended: when a report yields neither a ceiling nor a visibility,
\* flight_category is left None (no value is stored for it), and
\* flight_category always is one of LIFR, IFR, MVFR, VFR or None.
C5_AbsentCategory ==
    \A o \in {ml, wl} :
        /\ NeitherPresent(o) => o.result.flight_category = None
        /\ Decoded(o) =>
               o.result.flight_category \in
                   { Some("LIFR"), Some("IFR"), Some("MVFR"), Some("VFR"), None }

\* Both decoders returned a report with an observation time and neither a
\* ceiling nor a visibility; its flight_category is None.
C5_Witness ==
    \A o \in {ml, wl} :
        /\ NeitherPresent(o)
        /\ o.result.observation_time # None
        /\ o.result.flight_category = None

-----------------------------------------------------------------------------
(* Properties of the ceiling                                               *)

\* The coverage letters of a sky group and the digits after them.
CoverageLen(part) ==
    IF \A k \in 1..Len(part) : part[k] \in Digits THEN 0
    ELSE CHOOSE n \in 1..Len(part) :
             /\ part[n] \notin Digits
             /\ \A k \in (n + 1)..Len(part) : part[k] \in Digits

CoverageCode(part) == SubSeq(part, 1, CoverageLen(part))

HeightDigits(part) == SubSeq(part, CoverageLen(part) + 1, Len(part))

\* A group that is recorded in sky_condition with coverage BKN, OVC or VV.
IsCeilingLayer(part) == SkyRe(part) /\ CoverageCode(part) \in CeilingCoverages

\* The first index of parts whose group satisfies Test (0 if there is none).
FirstIndex(parts, Test(_)) ==
    IF \E k \in 1..Len(parts) : Test(parts[k])
    THEN CHOOSE k \in 1..Len(parts) :
             Test(parts[k]) /\ \A j \in 1..(k - 1) : ~Test(parts[j])
    ELSE 0

\* 100 times the height a group states, None when it states none.
HundredsOfFeet(part) ==
    IF HeightDigits(part) = <<>> THEN None
    ELSE Some(100 * ToInt(HeightDigits(part)))

IsCeilingLayerWithHeight(part) ==
    IsCeilingLayer(part) /\ Len(HeightDigits(part)) = 3

-----------------------------------------------------------------------------
(* Properties of the failure handling                                      *)

\* The report has a group matching the observation-time pattern.
HasTimeGroup == \E k \in 1..Len(ReportParts) : ObsTimeRe(ReportParts[k])

Called(o) == o.kind # "pending"

\* C7: if the report has no group matching the observation-time pattern,
\* metar_logger's decoder returns None or a result without observation_time
\* that still carries station_id and the raw text, whatever the other groups.
C7_NoTimeGroupIsInvalid ==
    (respond = "ok" /\ ~HasTimeGroup /\ Called(ml)) =>
        \/ ml.kind = "None"
        \/ /\ Decoded(ml)
           /\ ml.result.observation_time = None
           /\ ml.result.station_id = station
           /\ ml.result.raw_metar = ReportParts

\* C8: no exception propagates out of fetch_metar, in metar_logger as well
\* as in weather_logger, whatever the groups of the report.
C8_NeverRaises == \A o \in {ml, wl} : o.kind # "raise"

\* C9: for every report with a group matching the observation-time pattern,
\* each decoder returns an observation with observation_time set: a
\* malformed group only leaves its own field absent.
C9_OnlyMissingTimeRejects ==
    \A o \in {ml, wl} :
        (respond = "ok" /\ HasTimeGroup /\ Called(o)) =>
            Decoded(o) /\ o.result.observation_time # None

\* The group at index k is the last one of the report ending in SM.
LastVisibilityGroup(k) ==
    /\ EndsWith(ReportParts[k], <<"S", "M">>)
    /\ \A j \in (k + 1)..Len(ReportParts) : ~EndsWith(ReportParts[j], <<"S", "M">>)

\* C10: the group 1/2SM decodes to visibility 0.5 when the group before it
\* is not a whole number, and to the whole number plus 0.5 when it is
\* ("1", "1/2SM" gives 1.5).
C10_TwoGroupVisibility ==
    \A o \in {ml, wl} : \A k \in 1..Len(ReportParts) :
        (Decoded(o) /\ ReportParts[k] = V1_2SM /\ LastVisibilityGroup(k)) =>
            /\ o.result.visibility_sm # None
            /\ RatEq(o.result.visibility_sm[1],
                     IF k > 1 /\ FloatOk(ReportParts[k - 1])
                     THEN RatAdd(Float(ReportParts[k - 1]), <<1, 2>>)
                     ELSE <<1, 2>>)

-----------------------------------------------------------------------------
(* Properties of the wind                                                  *)

WindFields(r) == <<r.wind_direction_deg, r.wind_speed_kt, r.wind_gust_kt>>

\* The last index of the report whose group is a wind group, fixed or
\* variable (0 if there is none): the group that supplies the final wind.
LastWindIndex ==
    IF \E k \in 1..Len(ReportParts) : WindRe(ReportParts[k]) \/ VrbRe(ReportParts[k])
    THEN CHOOSE k \in 1..Len(ReportParts) :
             /\ WindRe(ReportParts[k]) \/ VrbRe(ReportParts[k])
             /\ \A j \in (k + 1)..Len(ReportParts) :
                    ~(WindRe(ReportParts[j]) \/ VrbRe(ReportParts[j]))
    ELSE 0

\* The cell with every VRBssKT group replaced by the fixed group 000ssKT.
WithFixedZero(c) ==
    [k \in 1..Len(c) |->
        IF VrbRe(c[k]) THEN <<"0", "0", "0">> \o SubSeq(c[k], 4, Len(c[k]))
        ELSE c[k]]

\* The decoder Fetch returned o for a report whose final wind group is
\* VRBssKT: the speed is ss, and the wind fields differ from those the same
\* decoder gives the report with 000ssKT in place of the VRB group.
VariableIsMarked(o, Fetch(_, _, _, _)) ==
    \A now \in Clock :
        (/\ Decoded(o)
         /\ o = Fetch(station, respond, cell, now)
         /\ LastWindIndex > 0
         /\ VrbRe(ReportParts[LastWindIndex])) =>
            LET vrb   == ReportParts[LastWindIndex]
                fixed == Fetch(station, respond, WithFixedZero(cell), now)
            IN  /\ o.result.wind_speed_kt = Some(ToInt(SubSeq(vrb, 4, Len(vrb) - 2)))
                /\ WindFields(o.result) # WindFields(fixed.result)

\* C11: a variable-wind group VRBssKT sets wind_speed_kt = ss and marks the
\* direction as variable, so that its decoded result differs from that of
\* the fixed group 000ssKT (VRB05KT versus 00005KT), in both decoders.
C11_VariableWindIsDistinguishable ==
    VariableIsMarked(ml, FetchMetarML) /\ VariableIsMarked(wl, FetchMetarWL)

\* C12: wind_gust_kt is present only if the wind group that supplied the
\* final speed and direction is dddssGggKT (and then it is gg); a report whose
\* last wind group has no G part has wind_gust_kt absent.
C12_GustOnlyFromLastWindGroup ==
    \A o \in {ml, wl} :
        Decoded(o) =>
            LET k == LastWindIndex
            IN  IF k > 0 /\ GustRe(ReportParts[k])
                THEN o.result.wind_gust_kt =
                         Some(ToInt(SubSeq(ReportParts[k], GPos(ReportParts[k]) + 1,
                                           Len(ReportParts[k]) - 2)))
                ELSE o.result.wind_gust_kt = None

\* C17: a fixed wind direction, when present, is an integer in 0..360.
C17_DirectionInRange ==
    \A o \in {ml, wl} :
        (Decoded(o) /\ o.result.wind_direction_deg # None) =>
            o.result.wind_direction_deg[1] \in 0..360

-----------------------------------------------------------------------------
(* The example report                                                      *)

\* The fields the example report decodes to.
ExampleDecoded(r) ==
    /\ r.wind_direction_deg = Some(40)
    /\ r.wind_speed_kt = Some(6)
    /\ r.wind_gust_kt = None
    /\ r.visibility_sm # None /\ RatEq(r.visibility_sm[1], <<4, 1>>)
    /\ r.weather_phenomena = Some(<<"-", "S", "N", " ", "B", "R">>)
    /\ r.sky_condition =
           Some(<<"F", "E", "W", "0", "0", "4", ",", " ", "O", "V", "C", "0", "0", "9">>)
    /\ r.ceiling_ft = Some(900)
    /\ r.temperature_c = Some(0 - 1)
    /\ r.dewpoint_c = Some(0 - 2)
    /\ r.altimeter_inhg # None /\ RatEq(r.altimeter_inhg[1], <<2973, 100>>)
    /\ r.flight_category = Some("MVFR")

\* C13: the report "KCOS 082354Z 04006KT 4SM -SN BR FEW004 OVC009 M01/M02
\* A2973" decodes, in both decoders, to direction 40, speed 6, no gust,
\* visibility 4, phenomena -SN then BR, sky FEW004 then OVC009, ceiling 900,
\* temperature -1, dewpoint -2, altimeter 29.73 and category MVFR.
C13_ExampleReport ==
    \A o \in {ml, wl} :
        (respond = "ok" /\ cell = ExampleCell /\ Called(o)) =>
            Decoded(o) /\ ExampleDecoded(o.result)

\* Both decoders returned the example report, decoded as stated.
C13_Witness ==
    /\ respond = "ok"
    /\ cell = ExampleCell
    /\ \A o \in {ml, wl} : Decoded(o) /\ ExampleDecoded(o.result)

-----------------------------------------------------------------------------
(* Determinism, remarks and classification                                 *)

\* C14: a call of a decoder returns what a call of the same decoder on the
\* same page returns at any other time: the result is a function of the raw
\* text alone, whenever the call runs.
C14_SameTextSameResult ==
    [][ /\ ml' # ml => \A now \in Clock : ml' = FetchMetarML(station, respond, cell, now)
        /\ wl' # wl => \A now \in Clock : wl' = FetchMetarWL(station, respond, cell, now)
      ]_vars

\* The decoded fields of a result: all but station_id and the raw text.
DecodedFields(r) ==
    << r.observation_time, r.wind_direction_deg, r.wind_speed_kt, r.wind_gust_kt,
       r.visibility_sm, r.weather_phenomena, r.sky_condition, r.ceiling_ft,
       r.temperature_c, r.dewpoint_c, r.altimeter_inhg, r.flight_category >>

\* The index of the first RMK group of the cell (0 if there is none).
RemarksIndex == FirstIndex(cell, LAMBDA part : part = RMK)

\* The decoder Fetch returned o for a report with a remarks section: it is
\* what the same decoder returns for the report without RMK and what
\* follows it.
RemarksIgnored(o, Fetch(_, _, _, _)) ==
    \A now \in Clock :
        (/\ respond = "ok"
         /\ RemarksIndex > 0
         /\ Called(o)
         /\ o = Fetch(station, respond, cell, now)) =>
            LET alone == Fetch(station, respond, SubSeq(cell, 1, RemarksIndex - 1), now)
            IN  /\ o.kind = alone.kind
                /\ DecodedFields(o.result) = DecodedFields(alone.result)

\* C15: decoding a report followed by RMK and any groups yields the same
\* decoded fields as decoding the report alone, even when the groups after
\* RMK match a group pattern.
C15_RemarksAreIgnored ==
    RemarksIgnored(ml, FetchMetarML) /\ RemarksIgnored(wl, FetchMetarWL)

\* The seven classifiers of the if/elif chain that match the group.
Classifiers(part) ==
    { c \in { "time", "wind", "variable", "visibility", "temperature",
              "altimeter", "sky" } :
        \/ c = "time" /\ ObsTimeRe(part)
        \/ c = "wind" /\ WindRe(part)
        \/ c = "variable" /\ VrbRe(part)
        \/ c = "visibility" /\ EndsWith(part, <<"S", "M">>)
        \/ c = "temperature" /\ TempRe(part)
        \/ c = "altimeter" /\ AltimeterRe(part)
        \/ c = "sky" /\ SkyRe(part) }

\* A group no classifier takes that has the form of a weather phenomenon.
OnlyWeather(part) == Classifiers(part) = {} /\ WeatherRe(part)

\* C16: no group of a report matches two of the seven classifiers, no group
\* a classifier takes has the form of a weather phenomenon, and
\* weather_phenomena holds exactly the groups that only the weather pattern
\* matches, in report order.
C16_OneClassPerGroup ==
    /\ \A k \in 1..Len(ReportParts) :
           /\ Cardinality(Classifiers(ReportParts[k])) <= 1
           /\ WeatherRe(ReportParts[k]) => Classifiers(ReportParts[k]) = {}
    /\ \A o \in {ml, wl} :
           Decoded(o) =>
               o.result.weather_phenomena =
                   LET codes == SelectSeq(ReportParts, OnlyWeather)
                   IN  IF codes = <<>> THEN None ELSE Some(Join(codes, <<" ">>))

\* Both decoders returned a report with a three-digit wind speed, a
\* temperature group and a thunderstorm, each taken by its own pattern.
C16_Witness ==
    /\ cell = <<W040106KT, PlusTSRA, TM01_M02>>
    /\ \A o \in {ml, wl} :
           /\ Decoded(o)
           /\ o.result.wind_speed_kt = Some(106)
           /\ o.result.temperature_c = Some(0 - 1)
           /\ o.result.weather_phenomena = Some(PlusTSRA)

-----------------------------------------------------------------------------
(* Properties of the run status and of the exit code                       *)

\* The block was left, by the end of its body or by an exception.
ExitedNormally == pc = "exited" /\ history.exception = None
ExitedByException == pc = "exited" /\ history.exception # None

\* The names of metrics.items whose item has the status.
ItemsWith(status) ==
    { name \in DOMAIN metrics.items : objs[metrics.items[name]].status = status }

\* C18: after an exception-free exit the status is 'success' with items none
\* of which is failed, 'failed' with a failed item and no succeeded one,
\* 'partial' with a succeeded and a failed item; without items it is
\* 'failed' if expected_items > 0 and 'success' otherwise.
C18_StatusOfItems ==
    ExitedNormally =>
        IF DOMAIN metrics.items # {}
        THEN /\ ItemsWith("failed") = {} => metrics.status = "success"
             /\ (ItemsWith("failed") # {} /\ ItemsWith("success") = {}) =>
                    metrics.status = "failed"
             /\ (ItemsWith("failed") # {} /\ ItemsWith("success") # {}) =>
                    metrics.status = "partial"
        ELSE metrics.status =
                 IF metrics.expected_items # None /\ metrics.expected_items[1] > 0
                 THEN "failed" ELSE "success"

\* The block ended without exception with one item succeeded, one failed.
C18_Witness ==
    /\ ExitedNormally
    /\ ItemsWith("success") # {}
    /\ ItemsWith("failed") # {}
    /\ metrics.status = "partial"

\* C19: when an exception leaves the block the run is 'failed' with exit
\* code 1, error_message and error_traceback are set, and the exception is
\* raised to the caller, whatever the items and the code set before.
C19_ExceptionFailsTheRun ==
    ExitedByException =>
        /\ metrics.status = "failed"
        /\ metrics.exit_code = Some(1)
        /\ metrics.error_message = Some(history.exception[1].text)
        /\ metrics.error_traceback # None
        /\ raised = history.exception

\* An exception left a block in which an item succeeded and the body had
\* set another exit code.
C19_Witness ==
    /\ ExitedByException
    /\ ItemsWith("success") # {}
    /\ ItemsWith("failed") = {}
    /\ history.set_exit_code \in {Some(0), Some(42)}
    /\ raised # None

\* C20: after an exception-free exit, exit_code is the code last passed to
\* set_exit_code if the body called it, and otherwise 0 if the status is
\* 'success' and 1 if it is 'partial' or 'failed'.
C20_ExitCode ==
    ExitedNormally =>
        IF history.set_exit_code # None
        THEN metrics.exit_code = history.set_exit_code
        ELSE /\ metrics.status = "success" => metrics.exit_code = Some(0)
             /\ metrics.status \in {"partial", "failed"} => metrics.exit_code = Some(1)
             /\ metrics.status \in {"success", "partial", "failed"}

\* The block ended without exception on a failed item after the body had
\* set the exit code 0.
C20_Witness ==
    /\ ExitedNormally
    /\ metrics.status = "failed"
    /\ history.set_exit_code = Some(0)
    /\ metrics.exit_code = Some(0)

-----------------------------------------------------------------------------
(* Properties of the items and of the retries                              *)

\* C21: an item tracked with track_item is 'running' with start_time set
\* and end_time unset when its block is entered; when the block is left it
\* is 'success' if the body ended and left the status alone (a status the
\* body set is kept), 'failed' with the text of the exception if the body
\* raised, the exception staying in flight; in every case end_time is set
\* and metrics.items has the name.
C21_TrackedItem ==
    [][ /\ Len(open') > Len(open) =>
               LET item == objs'[open'[Len(open')]]
               IN  /\ item.status = "running"
                   /\ item.start_time # None
                   /\ item.end_time = None
                   /\ item.name \in DOMAIN metrics'.items
        /\ Len(open') < Len(open) =>
               LET id == open[Len(open)]
               IN  /\ exc = None =>
                          objs'[id].status =
                              IF objs[id].status = "running" THEN "success"
                              ELSE objs[id].status
                   /\ exc # None =>
                          /\ objs'[id].status = "failed"
                          /\ objs'[id].error_message = Some(exc[1].text)
                          /\ exc' = exc
                   /\ objs'[id].end_time # None
                   /\ objs'[id].name \in DOMAIN metrics'.items
      ]_vars

C28_NotesInRunRecord ==
    (/\ pc = "exited"
     /\ metrics.initialized
     /\ db.script_runs # <<>>
     /\ db.script_runs[1].end_time # None) =>
        db.script_runs[1].notes = metrics.notes

-----------------------------------------------------------------------------
(* Fail-safe metrics                                                       *)

\* The in-memory state of the run: everything but the database and the
\* _initialized flag.
Memory ==
    [ metrics |-> [ metrics EXCEPT !.initialized = TRUE ], objs |-> objs,
      open |-> open, pc |-> pc, exc |-> exc, raised |-> raised,
      history |-> history ]

\* The in-memory state a with the item bound in metrics.items as a new
\* object.
WithItem(a, item) ==
    [ a EXCEPT !.objs = Append(@, item),
               !.metrics.items = Bind(@, item.name, Len(a.objs) + 1),
               !.history.calls = @ + 1 ]

\* The in-memory state a after the innermost track_item block is left.
WithoutInnermost(a) ==
    LET id == a.open[Len(a.open)]
        e  == a.exc
    IN  [ a EXCEPT
            !.objs[id].status =
                IF e = None THEN (IF @ = "running" THEN "success" ELSE @)
                ELSE IF e[1].exception THEN "failed" ELSE @,
            !.objs[id].error_message =
                IF e # None /\ e[1].exception THEN Some(e[1].text) ELSE @,
            !.objs[id].end_time = Some(Timestamp),
            !.open = SubSeq(@, 1, Len(@) - 1) ]

\* b is the in-memory state one step of the script takes a to when every
\* database operation succeeds.
WorkingStep(a, b) ==
    \/ /\ a.pc = "constructed"
       /\ b = [ a EXCEPT !.pc = "block", !.metrics.start_time = Some(Timestamp) ]
    \/ /\ a.pc = "block" /\ a.exc = None
       /\ b.history.calls = a.history.calls + 1
       /\ \/ \E name \in ItemNames, records_inserted \in Records :
                 b = WithItem(a, [ ItemTracker(name, None) EXCEPT
                                     !.status = "success",
                                     !.start_time = Some(Timestamp),
                                     !.end_time = Some(Timestamp),
                                     !.records_inserted = records_inserted ])
          \/ \E name \in ItemNames :
                 \/ b = WithItem(a, [ ItemTracker(name, None) EXCEPT
                                        !.status = "failed",
                                        !.start_time = Some(Timestamp),
                                        !.end_time = Some(Timestamp),
                                        !.error_message = Some("error") ])
                 \/ b = [ WithItem(a, [ ItemTracker(name, None) EXCEPT
                                          !.status = "running",
                                          !.start_time = Some(Timestamp) ])
                            EXCEPT !.open = Append(@, Len(a.objs) + 1) ]
          \/ /\ a.open # <<>>
             /\ \E status \in BodyStatuses :
                    b = [ a EXCEPT !.objs[a.open[Len(a.open)]].status = status,
                                   !.history.calls = @ + 1 ]
          \/ \E item_name \in {None} \cup { Some(n) : n \in ItemNames } :
                 b = [ a EXCEPT !.metrics.total_retries = @ + 1,
                                !.objs = Retried(a.metrics, @, item_name),
                                !.history.calls = @ + 1,
                                !.history.record_retry = @ + 1,
                                !.history.item_name = item_name ]
          \/ \E code \in ExitCodes :
                 b = [ a EXCEPT !.metrics.exit_code = Some(code),
                                !.history.calls = @ + 1,
                                !.history.set_exit_code = Some(code) ]
          \/ \E note \in Notes :
                 b = [ a EXCEPT !.metrics.notes =
                                    IF @ # None /\ @[1] # <<>>
                                    THEN Some(@[1] \o <<";", " ">> \o note)
                                    ELSE Some(note),
                                !.history.calls = @ + 1 ]
          \/ \E e \in Exceptions :
                 b = [ a EXCEPT !.exc = Some(e), !.history.calls = @ + 1 ]
    \/ /\ a.pc = "block" /\ a.open # <<>>
       /\ b = WithoutInnermost(a)
    \/ /\ a.pc = "block" /\ a.exc # None
       /\ b = [ a EXCEPT !.exc = None ]
    \/ /\ a.pc = "block" /\ a.open = <<>>
       /\ b = IF a.exc = None
              THEN [ a EXCEPT !.metrics = ExitNormally(@, a.objs),
                              !.pc = "exited" ]
              ELSE [ a EXCEPT !.metrics = ExitWithException(@, a.exc[1]),
                              !.pc = "exited", !.exc = None, !.raised = a.exc,
                              !.history.exception = a.exc ]

\* C22: whatever database operations fail, no error of the database is
\* raised in the script or to its caller, and each step takes the in-memory
\* state (items, total_retries, status, exit_code and the rest) to what it
\* takes it to in a run whose database operations all succeed.
C22_FailSafe ==
    /\ [](\A e \in {exc, raised} : e # None => e[1].type \notin DatabaseErrors)
    /\ [][WorkingStep(Memory, Memory')]_vars

\* The run ended 'partial' with a retry counted, the tables initialised and
\* every later database operation failed.
C22_Witness ==
    /\ pc = "exited"
    /\ metrics.initialized
    /\ db = EmptyDb
    /\ metrics.status = "partial"
    /\ metrics.total_retries = 1

-----------------------------------------------------------------------------
(* Properties of execute_with_retry                                        *)

\* The positions of the events of the call that are the given event.
EventsAt(event) ==
    { k \in 1..Len(retry.result.events) : retry.result.events[k] = event }

\* The number of invocations of the operation the call made.
Invocations == Cardinality(EventsAt("call"))

\* C26: with max_retries >= 1 the operation is invoked at least once and at
\* most max_retries times; an invocation that does not raise is the last
\* one and its result is returned; a sleep comes only between two
\* invocations, so there are at most max_retries - 1 sleeps and none after
\* the last attempt.
C26_BoundedAttempts ==
    (retry.called /\ retry.max_retries >= 1) =>
        LET events == retry.result.events
        IN  /\ Invocations \in 1..retry.max_retries
            /\ \A k \in 1..Invocations :
                   ~retry.operation[k].raises =>
                       /\ k = Invocations
                       /\ retry.result.outcome = retry.operation[k]
            /\ \A k \in EventsAt("sleep") :
                   /\ k > 1 /\ events[k - 1] = "call"
                   /\ k < Len(events) /\ events[k + 1] = "call"
            /\ Cardinality(EventsAt("sleep")) <= retry.max_retries - 1

\* A call with max_retries 3 whose operation was locked twice and then
\* returned: three invocations, a sleep between them.
C26_Witness ==
    /\ retry.called
    /\ retry.max_retries = 3
    /\ retry.result.events = <<"call", "sleep", "call", "sleep", "call">>
    /\ retry.result.outcome = Returns(1)

\* The errors that are retried: "database is locked" and "disk I/O error".
LockErrors == { Locked, DiskIO }

\* C27: the operation is invoked again only after an OperationalError that
\* says "database is locked" or "disk i/o error"; any other error is raised
\* to the caller by the invocation that met it; when all max_retries
\* attempts fail with such an error the call raises the error of the last
\* attempt; the call returns only what a successful invocation returned.
C27_RetriesOnlyLockErrors ==
    retry.called =>
        LET outcome == retry.result.outcome
        IN  /\ \A k \in 1..(Invocations - 1) :
                   /\ retry.operation[k].raises
                   /\ retry.operation[k].error \in LockErrors
            /\ Invocations <= retry.max_retries
            /\ \A k \in 1..Invocations :
                   (retry.operation[k].raises
                        /\ retry.operation[k].error \notin LockErrors) =>
                       /\ k = Invocations
                       /\ outcome = retry.operation[k]
            /\ (/\ retry.max_retries >= 1
                /\ \A k \in 1..retry.max_retries :
                       /\ retry.operation[k].raises
                       /\ retry.operation[k].error \in LockErrors) =>
                   /\ Invocations = retry.max_retries
                   /\ outcome = Raises(retry.operation[retry.max_retries].error)
            /\ ~outcome.raises =>
                   /\ Invocations >= 1
                   /\ outcome = retry.operation[Invocations]

\* A call whose three attempts failed, the first locked and the last with a
\* disk I/O error, raised the error of the last.
C27_Witness ==
    /\ retry.called
    /\ retry.max_retries = 3
    /\ retry.operation[1] = Raises(Locked)
    /\ retry.operation[3] = Raises(DiskIO)
    /\ Invocations = 3
    /\ retry.result.outcome = Raises(DiskIO)

-----------------------------------------------------------------------------
(* Properties of the metar table                                           *)

\* No two rows of the table have the same (station_id, observation_time).
OneRowPerKey ==
    \A i, j \in 1..Len(table) : i # j => ~SameKey(table[i], table[j])

\* store_metar was called in the step.
StoreCalled == store'.calls # store.calls

\* The table had a row with the key of the report of the call.
KeyPresent == \E k \in 1..Len(table) : SameKey(table[k], store'.metar)

\* The call left the table alone and metar_logger.store_metar returned
\* False.
NothingStored ==
    /\ table' = table
    /\ store'.caller = "metar_logger" => store'.returned = Some(FALSE)

\* The call added the row of its report, and no other, and
\* metar_logger.store_metar returned True.
OneRowStored ==
    /\ table' = Append(table, Row(store'.fetch_time, store'.metar))
    /\ store'.caller = "metar_logger" => store'.returned = Some(TRUE)

-----------------------------------------------------------------------------
(* Properties of metar_logger.main                                         *)

\* main() is over: it returned, or an exception left it.
MainOver == main.pc \in {"returned", "raised"}

\* C25: when main() is over and no commit failed, every station of
\* METAR_STATIONS has exactly one recorded outcome (item_succeeded or
\* item_failed), in the order of the list, whatever the reports were.
C25_EveryStationRecorded ==
    (MainOver /\ ~main.commit_failed)
        => /\ Len(main.outcomes) = Len(Stations)
           /\ \A k \in DOMAIN main.outcomes :
                  /\ main.outcomes[k].station = Stations[k]
                  /\ main.outcomes[k].outcome \in {"succeeded", "failed"}

\* The metar table has a row for the station and the observation_time.
HasRow(station_id, observation_time) ==
    \E j \in DOMAIN table :
        /\ table[j].station_id = station_id
        /\ table[j].observation_time = observation_time

\* C29: a station recorded as succeeded has its row in the metar table.
C29_SucceededHasRow ==
    \A k \in DOMAIN main.outcomes :
        main.outcomes[k].outcome = "succeeded"
            => HasRow(main.outcomes[k].station, main.outcomes[k].observation_time)

\* C30: when main() returns, it returns 0 exactly when the exit_code that
\* ScriptMetrics recorded for the run is 0.
C30_ReturnIsExitCode ==
    main.pc = "returned"
        => ((main.returned = Some(0)) <=> (metrics.exit_code = Some(0)))

====
